---- MODULE Spec2Model ----
(***************************************************************************)
(* Model of engine/apps/auth_token/auth.py: the authentication schemes of  *)
(* the on-call backend.  Every scheme's authenticate() is a function of    *)
(* the request and of the stored organizations, users and credentials; it  *)
(* ends by returning a (user, auth_token) pair, by returning None ("no     *)
(* opinion") or by raising.  The database starts in one of a bounded set   *)
(* of fixtures; each action runs one scheme (or one endpoint's scheme      *)
(* chain) on one request and records the request, the outcome and the      *)
(* collaborator calls made on the way in `last`.  The service-account      *)
(* scheme's get_organization is three steps (query, sync trigger, query)   *)
(* that interleave with other requests and with the triggered syncs; the   *)
(* strict plugin scheme's user lookup and its get_or_create_user call are  *)
(* two steps that interleave with other requests.                          *)
(***************************************************************************)
EXTENDS Integers, Sequences, FiniteSets, Bags, TLC

VARIABLES
    organizations,  \* Organization table: sequence indexed by pk
    users,          \* User table: sequence indexed by pk
    schedules,      \* OnCallSchedule table: sequence indexed by pk
    tokens,         \* Token Store: model name -> set of stored credentials
    settings,       \* settings.LICENSE and SELF_HOSTED_SETTINGS
    syncing,        \* urls whose organization sync was triggered and is in flight
    last,           \* the request being answered: scheme, request, outcome, calls
    racers          \* bag of the requests in flight inside authenticate()

vars == <<organizations, users, schedules, tokens, settings, syncing, last, racers>>

\* Number of organizations stored when the system starts.
MaxOrgs == 2

\* Number of requests that run get_organization concurrently.
MaxRacers == 2

(***************************************************************************)
(* Python values.  Optional values are None or Some(x); `if not x` on an   *)
(* Optional[str] is ~Truthy(x).                                            *)
(***************************************************************************)
None == <<>>
Some(x) == <<x>>
Truthy(opt) == opt # None /\ opt[1] # ""

StartsWith(s, p) == Len(s) >= Len(p) /\ SubSeq(s, 1, Len(p)) = p

RECURSIVE RStripSlash(_)
RStripSlash(s) ==
    IF Len(s) > 0 /\ SubSeq(s, Len(s), Len(s)) = "/"
    THEN RStripSlash(SubSeq(s, 1, Len(s) - 1))
    ELSE s

(***************************************************************************)
(* Names the code imports.                                                 *)
(***************************************************************************)
GRAFANA_SA_PREFIX == "glsa_"
CLOUD_LICENSE_NAME == "Cloud"
OPEN_SOURCE_LICENSE_NAME == "OpenSource"
X_GRAFANA_URL == "X-Grafana-URL"
X_GRAFANA_INSTANCE_ID == "X-Grafana-Instance-ID"

SocialSchemes == {"SlackTokenAuthentication", "MattermostTokenAuthentication",
                  "GoogleTokenAuthentication"}

\* model attribute of each scheme class
ModelOf(scheme) ==
    CASE scheme = "ApiTokenAuthentication" -> "ApiAuthToken"
      [] scheme = "SlackTokenAuthentication" -> "SlackAuthToken"
      [] scheme = "MattermostTokenAuthentication" -> "MattermostAuthToken"
      [] scheme = "GoogleTokenAuthentication" -> "GoogleOAuth2Token"
      [] scheme = "ScheduleExportAuthentication" -> "ScheduleExportAuthToken"
      [] scheme = "UserScheduleExportAuthentication" -> "UserScheduleExportAuthToken"
      [] scheme = "IntegrationBacksyncAuthentication" -> "IntegrationBacksyncAuthToken"
      [] scheme = "GrafanaServiceAccountAuthentication" -> "ServiceAccountToken"

\* token_query_param_name attribute of each social scheme class
TokenQueryParamName(scheme) ==
    CASE scheme = "SlackTokenAuthentication" -> "SLACK_AUTH_TOKEN_NAME"
      [] scheme = "MattermostTokenAuthentication" -> "MATTERMOST_AUTH_TOKEN_NAME"
      [] scheme = "GoogleTokenAuthentication" -> "GOOGLE_OAUTH2_AUTH_TOKEN_NAME"

SCHEDULE_EXPORT_TOKEN_NAME == "SCHEDULE_EXPORT_TOKEN_NAME"

QueryParams == {TokenQueryParamName(s) : s \in SocialSchemes} \cup {SCHEDULE_EXPORT_TOKEN_NAME}

Models == {ModelOf(s) : s \in SocialSchemes} \cup
          {"ApiAuthToken", "ScheduleExportAuthToken", "UserScheduleExportAuthToken",
           "IntegrationBacksyncAuthToken", "ServiceAccountToken", "PluginAuthToken"}

(***************************************************************************)
(* The database fixture.  Organization o has url UrlOf(o), stack id o and  *)
(* slugs SlugOf(o); it has an active user 2o-1, an inactive user 2o and a  *)
(* schedule o.  Every credential model holds credentials of every          *)
(* organization; the export models hold an active and a deactivated one,   *)
(* the plugin model also holds a credential bound to no organization.      *)
(***************************************************************************)
OrgPks == 1..MaxOrgs
UrlOf(o) == "http://g" \o ToString(o)
SlugOf(o) == "slug" \o ToString(o)
UnknownUrl == "http://new"
UnknownSlug == "slug-none"
MalformedUrl == "not a url"
UnknownInstanceId == ToString(MaxOrgs + 2)

ActiveUserOf(o) == 2 * o - 1
InactiveUserOf(o) == 2 * o

Credential(model, s, o, u, sch, act) ==
    [model |-> model, token_string |-> s, organization |-> o, user |-> u,
     schedule |-> sch, active |-> act]

InitTokens ==
    [m \in Models |->
        CASE m = "ApiAuthToken" ->
                 {Credential(m, "api" \o ToString(u), (u + 1) \div 2, u, 0, TRUE) :
                     u \in 1..(2 * MaxOrgs)}
          [] m \in {"ScheduleExportAuthToken", "UserScheduleExportAuthToken"} ->
                 {Credential(m, "exp_on" \o ToString(o), o, ActiveUserOf(o), o, TRUE) :
                     o \in OrgPks}
                 \cup
                 {Credential(m, "exp_off" \o ToString(o), o, ActiveUserOf(o), o, FALSE) :
                     o \in OrgPks}
          [] m = "ServiceAccountToken" ->
                 {Credential(m, GRAFANA_SA_PREFIX \o ToString(o), o, 0, 0, TRUE) :
                     o \in OrgPks}
          [] m = "PluginAuthToken" ->
                 {Credential(m, "plug" \o ToString(o), o, 0, 0, TRUE) : o \in OrgPks}
                 \cup {Credential(m, "plug_noorg", 0, 0, 0, TRUE)}
          [] OTHER ->
                 {Credential(m, "soc" \o ToString(o), o, ActiveUserOf(o), 0, TRUE) :
                     o \in OrgPks}]

Timestamp == "2024-01-01T00:00:00Z"

\* User u: its Grafana user id and its login differ from its pk.
UserIdOf(u) == 100 + u
LoginOf(u) == "login" \o ToString(u)
UnknownUserId == 99
UnknownLogin == "nobody"
NewLogin == "newcomer"

UserRow(u) ==
    [organization |-> (u + 1) \div 2, is_active |-> u % 2 = 1,
     public_primary_key |-> "U" \o ToString(u), user_id |-> UserIdOf(u),
     username |-> LoginOf(u)]

OrgRow(o, moved, deleted) ==
    [is_moved |-> moved, deleted_at |-> deleted, grafana_url |-> UrlOf(o),
     stack_id |-> o, org_slug |-> SlugOf(o), stack_slug |-> SlugOf(o)]

SettingsSet ==
    {[LICENSE |-> CLOUD_LICENSE_NAME, ORG_SLUG |-> SlugOf(1), STACK_SLUG |-> SlugOf(1)]}
    \cup
    {[LICENSE |-> OPEN_SOURCE_LICENSE_NAME, ORG_SLUG |-> s, STACK_SLUG |-> s] :
        s \in {SlugOf(1), UnknownSlug}}

(***************************************************************************)
(* Requests and outcomes.                                                  *)
(***************************************************************************)
NoQuery == [p \in QueryParams |-> None]

Request(auth, query, pk, url, instance) ==
    [authorization |-> auth, query |-> query, pk |-> pk,
     headers |-> [h \in {X_GRAFANA_URL, X_GRAFANA_INSTANCE_ID} |->
                     IF h = X_GRAFANA_URL THEN url ELSE instance]]

EmptyRequest == Request("", NoQuery, None, None, None)

\* return user, auth_token
Success(user, auth_token) ==
    [kind |-> "success", detail |-> "", user |-> user, auth_token |-> auth_token,
     organization |-> None]

\* return None
NoOpinion ==
    [kind |-> "None", detail |-> "", user |-> None, auth_token |-> None,
     organization |-> None]

\* raise exceptions.AuthenticationFailed(detail) / exceptions.Throttled(detail=detail)
Raise(exc, detail) ==
    [kind |-> exc, detail |-> detail, user |-> None, auth_token |-> None,
     organization |-> None]

\* raise OrganizationMovedException(organization)
OrganizationMovedException(o) ==
    [kind |-> "OrganizationMovedException", detail |-> "", user |-> None,
     auth_token |-> None, organization |-> Some(o)]

\* raise OrganizationDeletedException(organization)
OrganizationDeletedException(o) ==
    [kind |-> "OrganizationDeletedException", detail |-> "", user |-> None,
     auth_token |-> None, organization |-> Some(o)]

AuthenticationFailed(detail) == Raise("AuthenticationFailed", detail)
Throttled(detail) == Raise("Throttled", detail)

UserPrincipal(u) == <<"User", u>>
ServerUser == <<"ServerUser">>

\* What a scheme's authenticate() did: its outcome and the collaborator
\* calls it made in order.
Ran(out, trace) == [out |-> out, trace |-> trace, pending |-> FALSE]

\* authenticate() has not ended: it stands before setup_organization(url,
\* auth), a call that waits on another service, having made the calls of
\* `trace`.
Pending(url, trace) ==
    [out |-> NoOpinion, trace |-> trace, pending |-> TRUE, url |-> url]

(***************************************************************************)
(* Token Store: cls.validate_token_string(token).  Some(credential) when   *)
(* a stored credential of the model carries the secret, None for           *)
(* InvalidToken.                                                           *)
(***************************************************************************)
validate_token_string(model, token) ==
    LET found == {t \in tokens[model] : t.token_string = token}
    IN  IF found = {} THEN None ELSE Some(CHOOSE t \in found : TRUE)

(***************************************************************************)
(* ApiTokenAuthentication                                                  *)
(***************************************************************************)
\* Faulty variant: deleted_at is tested before is_moved.
ApiToken_authenticate_credentials_DeletedFirst(token) ==
    LET found == validate_token_string("ApiAuthToken", token)
        auth_token == found[1]
        org == organizations[auth_token.organization]
    IN  IF found = None THEN AuthenticationFailed("Invalid token.")
        ELSE IF org.deleted_at # None THEN OrganizationDeletedException(auth_token.organization)
        ELSE IF org.is_moved THEN OrganizationMovedException(auth_token.organization)
        ELSE Success(UserPrincipal(auth_token.user), found)

ApiToken_authenticate_credentials(token) ==
    LET found == validate_token_string("ApiAuthToken", token)
        auth_token == found[1]
        org == organizations[auth_token.organization]
    IN  IF found = None THEN AuthenticationFailed("Invalid token.")
        ELSE IF org.is_moved THEN OrganizationMovedException(auth_token.organization)
        ELSE IF org.deleted_at # None THEN OrganizationDeletedException(auth_token.organization)
        ELSE Success(UserPrincipal(auth_token.user), found)

ApiToken_authenticate(request) ==
    LET res == ApiToken_authenticate_credentials(request.authorization)
        out == IF res.kind # "success" THEN res
               ELSE IF ~users[res.user[2]].is_active
               THEN AuthenticationFailed("Only active users are allowed to perform this action.")
               ELSE res
    IN  Ran(out, <<"validate_token_string">>)

(***************************************************************************)
(* _SocialAuthTokenAuthentication (Slack, Mattermost, Google)              *)
(***************************************************************************)
\* Faulty variant: InvalidToken becomes an authentication failure.
Social_authenticate_InvalidRaises(scheme, request) ==
    LET auth == request.query[TokenQueryParamName(scheme)]
        found == validate_token_string(ModelOf(scheme), auth[1])
    IN  IF ~Truthy(auth) THEN Ran(NoOpinion, <<>>)
        ELSE IF found # None
        THEN Ran(Success(UserPrincipal(found[1].user), found), <<"validate_token_string">>)
        ELSE Ran(AuthenticationFailed("Invalid token."), <<"validate_token_string">>)

\* Faulty variant: a missing token is refused, as the export schemes do.
Social_authenticate_AbsentRaises(scheme, request) ==
    LET auth == request.query[TokenQueryParamName(scheme)]
        found == validate_token_string(ModelOf(scheme), auth[1])
    IN  IF ~Truthy(auth) THEN Ran(AuthenticationFailed("Invalid token."), <<>>)
        ELSE IF found # None
        THEN Ran(Success(UserPrincipal(found[1].user), found), <<"validate_token_string">>)
        ELSE Ran(NoOpinion, <<"validate_token_string">>)

Social_authenticate(scheme, request) ==
    LET auth == request.query[TokenQueryParamName(scheme)]
        found == validate_token_string(ModelOf(scheme), auth[1])
    IN  IF ~Truthy(auth) THEN Ran(NoOpinion, <<>>)
        ELSE IF found # None
        THEN Ran(Success(UserPrincipal(found[1].user), found), <<"validate_token_string">>)
        ELSE Ran(NoOpinion, <<"validate_token_string">>)

(***************************************************************************)
(* ScheduleExportAuthentication                                            *)
(***************************************************************************)
\* Faulty variant: the activation flag is tested before the bound schedule.
ScheduleExport_authenticate_credentials_ActiveFirst(token_string, public_primary_key) ==
    LET found == validate_token_string("ScheduleExportAuthToken", token_string)
        auth_token == found[1]
        org == organizations[auth_token.organization]
    IN  IF found = None THEN AuthenticationFailed("Invalid token.")
        ELSE IF org.is_moved THEN OrganizationMovedException(auth_token.organization)
        ELSE IF org.deleted_at # None THEN OrganizationDeletedException(auth_token.organization)
        ELSE IF ~auth_token.active THEN AuthenticationFailed("Export token is deactivated")
        ELSE IF Some(schedules[auth_token.schedule].public_primary_key) # public_primary_key
        THEN AuthenticationFailed("Invalid schedule export token for schedule")
        ELSE Success(UserPrincipal(auth_token.user), found)

ScheduleExport_authenticate_credentials(token_string, public_primary_key) ==
    LET found == validate_token_string("ScheduleExportAuthToken", token_string)
        auth_token == found[1]
        org == organizations[auth_token.organization]
    IN  IF found = None THEN AuthenticationFailed("Invalid token.")
        ELSE IF org.is_moved THEN OrganizationMovedException(auth_token.organization)
        ELSE IF org.deleted_at # None THEN OrganizationDeletedException(auth_token.organization)
        ELSE IF Some(schedules[auth_token.schedule].public_primary_key) # public_primary_key
        THEN AuthenticationFailed("Invalid schedule export token for schedule")
        ELSE IF ~auth_token.active THEN AuthenticationFailed("Export token is deactivated")
        ELSE Success(UserPrincipal(auth_token.user), found)

ScheduleExport_authenticate(request) ==
    LET auth == request.query[SCHEDULE_EXPORT_TOKEN_NAME]
        public_primary_key == request.pk
    IN  IF ~Truthy(auth) THEN Ran(AuthenticationFailed("Invalid token."), <<>>)
        ELSE Ran(ScheduleExport_authenticate_credentials(auth[1], public_primary_key),
                 <<"validate_token_string">>)

(***************************************************************************)
(* UserScheduleExportAuthentication                                        *)
(***************************************************************************)
\* Faulty variant: the activation flag is not tested.
UserScheduleExport_authenticate_credentials_NoActiveCheck(token_string, public_primary_key) ==
    LET found == validate_token_string("UserScheduleExportAuthToken", token_string)
        auth_token == found[1]
        org == organizations[auth_token.organization]
    IN  IF found = None THEN AuthenticationFailed("Invalid token")
        ELSE IF org.is_moved THEN OrganizationMovedException(auth_token.organization)
        ELSE IF org.deleted_at # None THEN OrganizationDeletedException(auth_token.organization)
        ELSE IF Some(users[auth_token.user].public_primary_key) # public_primary_key
        THEN AuthenticationFailed("Invalid schedule export token for user")
        ELSE Success(UserPrincipal(auth_token.user), found)

UserScheduleExport_authenticate_credentials(token_string, public_primary_key) ==
    LET found == validate_token_string("UserScheduleExportAuthToken", token_string)
        auth_token == found[1]
        org == organizations[auth_token.organization]
    IN  IF found = None THEN AuthenticationFailed("Invalid token")
        ELSE IF org.is_moved THEN OrganizationMovedException(auth_token.organization)
        ELSE IF org.deleted_at # None THEN OrganizationDeletedException(auth_token.organization)
        ELSE IF Some(users[auth_token.user].public_primary_key) # public_primary_key
        THEN AuthenticationFailed("Invalid schedule export token for user")
        ELSE IF ~auth_token.active THEN AuthenticationFailed("Export token is deactivated")
        ELSE Success(UserPrincipal(auth_token.user), found)

UserScheduleExport_authenticate(request) ==
    LET auth == request.query[SCHEDULE_EXPORT_TOKEN_NAME]
        public_primary_key == request.pk
    IN  IF ~Truthy(auth) THEN Ran(AuthenticationFailed("Invalid token."), <<>>)
        ELSE Ran(UserScheduleExport_authenticate_credentials(auth[1], public_primary_key),
                 <<"validate_token_string">>)

(***************************************************************************)
(* IntegrationBacksyncAuthentication                                       *)
(***************************************************************************)
Backsync_authenticate_credentials(token_string) ==
    LET found == validate_token_string("IntegrationBacksyncAuthToken", token_string)
        auth_token == found[1]
        org == organizations[auth_token.organization]
    IN  IF found = None THEN AuthenticationFailed("Invalid token")
        ELSE IF org.is_moved THEN OrganizationMovedException(auth_token.organization)
        ELSE IF org.deleted_at # None THEN OrganizationDeletedException(auth_token.organization)
        ELSE Success(ServerUser, found)

Backsync_authenticate(request) ==
    LET token == request.authorization
    IN  IF token = "" THEN Ran(AuthenticationFailed("Invalid token."), <<>>)
        ELSE Ran(Backsync_authenticate_credentials(token), <<"validate_token_string">>)

(***************************************************************************)
(* GrafanaServiceAccountAuthentication                                     *)
(***************************************************************************)
\* common.utils.validate_url: the url when it is a well-formed http(s) url,
\* None otherwise.
validate_url(url) ==
    IF \/ (StartsWith(url, "http://") /\ Len(url) > Len("http://"))
       \/ (StartsWith(url, "https://") /\ Len(url) > Len("https://"))
    THEN Some(url) ELSE None

\* QuerySet.first(): the matching row of lowest pk, or None.
First(found) ==
    IF found = {} THEN None
    ELSE Some(CHOOSE o \in found : \A x \in found : o <= x)

\* Organization.objects.filter(grafana_url=url).first()
filter_grafana_url(orgs, url) ==
    First({o \in DOMAIN orgs : orgs[o].grafana_url = url})

\* Organization.objects.filter(stack_id=instance_id).first()
filter_stack_id(orgs, instance_id) ==
    First({o \in DOMAIN orgs : ToString(orgs[o].stack_id) = instance_id})

\* Organization.objects.filter(org_slug=org_slug, stack_slug=instance_slug).first()
filter_slugs(orgs, org_slug, instance_slug) ==
    First({o \in DOMAIN orgs : /\ orgs[o].org_slug = org_slug
                                /\ orgs[o].stack_slug = instance_slug})

\* The organization row a completed sync of `url` stores.
SyncedOrgs(orgs, url) ==
    IF filter_grafana_url(orgs, url) # None THEN orgs
    ELSE Append(orgs, [is_moved |-> FALSE, deleted_at |-> None, grafana_url |-> url,
                       stack_id |-> Len(orgs) + 1, org_slug |-> SlugOf(Len(orgs) + 1),
                       stack_slug |-> SlugOf(Len(orgs) + 1)])

\* setup_organization(url, auth): triggers the organization sync of the
\* url and returns when the trigger is answered; a trigger while a sync of
\* the url is in flight starts nothing.  The result is the set of syncs in
\* flight after the call.
setup_organization(url, auth) == syncing \cup {url}

\* What get_organization did: it returned `organization` (None or Some(pk)),
\* it raised `out`, or its first query of the url branch found nothing and
\* it goes on to setup_organization.
Resolved(organization, trace) ==
    [raised |-> FALSE, missed |-> FALSE, out |-> NoOpinion,
     organization |-> organization, trace |-> trace]

ResolverRaised(out, trace) ==
    [raised |-> TRUE, missed |-> FALSE, out |-> out, organization |-> None,
     trace |-> trace]

Missed(url, trace) ==
    [raised |-> FALSE, missed |-> TRUE, out |-> NoOpinion, organization |-> None,
     trace |-> trace, url |-> url]

\* Faulty variant: the url is looked up without stripping its trailing slash.
get_organization_NoStrip(request, auth) ==
    LET grafana_url == request.headers[X_GRAFANA_URL]
        valid == validate_url(grafana_url[1])
        url == valid[1]
        first == filter_grafana_url(organizations, url)
        instance_id == request.headers[X_GRAFANA_INSTANCE_ID]
    IN  IF Truthy(grafana_url) /\ valid # None
        THEN IF first # None THEN Resolved(first, <<"filter_grafana_url">>)
             ELSE Missed(url, <<"filter_grafana_url">>)
        ELSE IF settings.LICENSE = CLOUD_LICENSE_NAME
        THEN IF ~Truthy(instance_id)
             THEN ResolverRaised(AuthenticationFailed("Missing " \o X_GRAFANA_INSTANCE_ID),
                                 <<>>)
             ELSE Resolved(filter_stack_id(organizations, instance_id[1]),
                           <<"filter_stack_id">>)
        ELSE Resolved(filter_slugs(organizations, settings.ORG_SLUG, settings.STACK_SLUG),
                      <<"filter_slugs">>)

\* get_organization up to its return, its raise, or the first query of the
\* url branch that finds nothing (line 388).
get_organization(request, auth) ==
    LET grafana_url == request.headers[X_GRAFANA_URL]
        valid == validate_url(grafana_url[1])
        url == RStripSlash(valid[1])
        first == filter_grafana_url(organizations, url)
        instance_id == request.headers[X_GRAFANA_INSTANCE_ID]
    IN  IF Truthy(grafana_url) /\ valid # None
        THEN IF first # None THEN Resolved(first, <<"filter_grafana_url">>)
             ELSE Missed(url, <<"filter_grafana_url">>)
        ELSE IF settings.LICENSE = CLOUD_LICENSE_NAME
        THEN IF ~Truthy(instance_id)
             THEN ResolverRaised(AuthenticationFailed("Missing " \o X_GRAFANA_INSTANCE_ID),
                                 <<>>)
             ELSE Resolved(filter_stack_id(organizations, instance_id[1]),
                           <<"filter_stack_id">>)
        ELSE Resolved(filter_slugs(organizations, settings.ORG_SLUG, settings.STACK_SLUG),
                      <<"filter_slugs">>)

\* Faulty variant: an organization still absent after the sync trigger is
\* returned as None instead of raising Throttled.
get_organization_requery_NoThrottle(url, trace) ==
    Resolved(filter_grafana_url(organizations, url), Append(trace, "filter_grafana_url"))

\* Faulty variant: after the sync trigger the table is not queried again.
get_organization_requery_NoRequery(url, trace) ==
    ResolverRaised(Throttled("Organization being synced, please retry."), trace)

\* get_organization from the return of setup_organization on (lines
\* 394-398): the second query, on the table as it is by then.  `trace` is
\* the calls made before it.
get_organization_requery(url, trace) ==
    LET second == filter_grafana_url(organizations, url)
    IN  IF second = None
        THEN ResolverRaised(Throttled("Organization being synced, please retry."),
                            Append(trace, "filter_grafana_url"))
        ELSE Resolved(second, Append(trace, "filter_grafana_url"))

\* ServiceAccountToken.validate_token(organization, token): Some(credential)
\* when the organization's Grafana accepts the token, None for InvalidToken.
validate_token(organization, token) ==
    LET found == {t \in tokens["ServiceAccountToken"] :
                     t.organization = organization /\ t.token_string = token}
    IN  IF found = {} THEN None ELSE Some(CHOOSE t \in found : TRUE)

ServiceAccountUser(o) == <<"ServiceAccountUser", o>>

ServiceAccount_authenticate_credentials(organization, token) ==
    LET found == validate_token(organization, token)
    IN  IF found = None THEN AuthenticationFailed("Invalid token.")
        ELSE Success(ServiceAccountUser(organization), found)

\* Faulty variant: the token is validated before the organization is
\* tested for moved and deleted.
authenticate_resolved_ValidateFirst(res, auth) ==
    LET organization == res.organization[1]
        row == organizations[organization]
        checked == ServiceAccount_authenticate_credentials(organization, auth)
    IN  IF res.raised THEN Ran(res.out, res.trace)
        ELSE IF res.organization = None
        THEN Ran(AuthenticationFailed("Organization not found."), res.trace)
        ELSE IF checked.kind # "success"
        THEN Ran(checked, Append(res.trace, "validate_token"))
        ELSE IF row.is_moved
        THEN Ran(OrganizationMovedException(organization),
                 Append(res.trace, "validate_token"))
        ELSE IF row.deleted_at # None
        THEN Ran(OrganizationDeletedException(organization),
                 Append(res.trace, "validate_token"))
        ELSE Ran(checked, Append(res.trace, "validate_token"))

\* authenticate() from the point where get_organization returned or raised
\* (lines 371-380); `res` is what get_organization did.
authenticate_resolved(res, auth) ==
    LET organization == res.organization[1]
        row == organizations[organization]
    IN  IF res.raised THEN Ran(res.out, res.trace)
        ELSE IF res.organization = None
        THEN Ran(AuthenticationFailed("Organization not found."), res.trace)
        ELSE IF row.is_moved THEN Ran(OrganizationMovedException(organization), res.trace)
        ELSE IF row.deleted_at # None
        THEN Ran(OrganizationDeletedException(organization), res.trace)
        ELSE Ran(ServiceAccount_authenticate_credentials(organization, auth),
                 Append(res.trace, "validate_token"))

\* Faulty variant: an empty Authorization value returns None instead of
\* raising.
ServiceAccount_authenticate_EmptyIsNone(request) ==
    LET auth == request.authorization
        res == get_organization(request, auth)
    IN  IF ~StartsWith(auth, GRAFANA_SA_PREFIX) THEN Ran(NoOpinion, <<>>)
        ELSE IF res.missed THEN Pending(res.url, res.trace)
        ELSE authenticate_resolved(res, auth)

\* authenticate() up to its end or, when the first query of the url branch
\* finds nothing, up to the call of setup_organization.
ServiceAccount_authenticate(request) ==
    LET auth == request.authorization
        res == get_organization(request, auth)
    IN  IF auth = "" THEN Ran(AuthenticationFailed("Invalid token."), <<>>)
        ELSE IF ~StartsWith(auth, GRAFANA_SA_PREFIX) THEN Ran(NoOpinion, <<>>)
        ELSE IF res.missed THEN Pending(res.url, res.trace)
        ELSE authenticate_resolved(res, auth)

\* authenticate() of a request in flight from the return of
\* setup_organization(url, auth) to its end.
ServiceAccount_authenticate_resume(request, url, trace) ==
    authenticate_resolved(get_organization_requery(url, trace), request.authorization)

(***************************************************************************)
(* BasePluginAuthentication and PluginAuthentication: JSON headers.        *)
(* A header is None when absent, else Some(text).  A text is the empty     *)
(* string, a text json.loads rejects, or a JSON document: null, a boolean, *)
(* a number, a string, an array of documents, or an object.  An object is  *)
(* given as json.loads returns it: the <<key, document>> members of the    *)
(* dict in insertion order, no key twice.                                  *)
(***************************************************************************)
JNull == <<"null">>
JBool(b) == <<"bool", b>>
JInt(n) == <<"int", n>>
JStr(str) == <<"str", str>>
JArray(items) == <<"array", items>>
JObject(members) == <<"object", members>>

EmptyText == <<"text", "">>
NotJson == <<"text", "{not json">>

X_INSTANCE_CONTEXT == "X-Instance-Context"
X_GRAFANA_CONTEXT == "X-Grafana-Context"
X_ONCALL_USER_CONTEXT == "X-Oncall-User-Context"

PluginHeaders == {X_INSTANCE_CONTEXT, X_GRAFANA_CONTEXT, X_ONCALL_USER_CONTEXT}

\* A Python dict is the function from its keys to their values; a key is
\* the value json.loads gave: a string, a number, a boolean or None.
EmptyDict == [k \in {} |-> JNull]

\* json.loads(header): None raises TypeError, a text that is not JSON raises
\* ValueError (JSONDecodeError).
json_loads(header) ==
    IF header = None THEN [ok |-> FALSE, error |-> "TypeError", value |-> JNull]
    ELSE IF header[1][1] = "text"
    THEN [ok |-> FALSE, error |-> "ValueError", value |-> JNull]
    ELSE [ok |-> TRUE, error |-> "", value |-> header[1]]

\* The value two keys are compared (and hashed) by: True is 1, False is 0.
PyKey(key) ==
    IF key[1] = "bool" THEN JInt(IF key[2] THEN 1 ELSE 0) ELSE key

\* The dict built by inserting the <<key, value>> pairs in order: a key
\* equal to an earlier one keeps the earlier key and takes the later value.
dict_of_pairs(pairs) ==
    LET same(key) == {j \in 1..Len(pairs) : PyKey(pairs[j][1]) = PyKey(key)}
        first(key) == CHOOSE j \in same(key) : \A h \in same(key) : j <= h
        last_(key) == CHOOSE j \in same(key) : \A h \in same(key) : h <= j
    IN  [key \in {pairs[first(pairs[i][1])][1] : i \in 1..Len(pairs)} |->
            pairs[last_(key)][2]]

\* The dict json.loads returned for an object, as a function.
object_dict(members) ==
    [key \in {JStr(members[i][1]) : i \in 1..Len(members)} |->
        members[CHOOSE i \in 1..Len(members) : JStr(members[i][1]) = key][2]]

\* list(item) of an element of the sequence given to dict(): the elements
\* of an array, the characters of a string, the keys of a dict in insertion
\* order.
Elements(item) ==
    IF item[1] = "array" THEN item[2]
    ELSE IF item[1] = "str"
    THEN [i \in 1..Len(item[2]) |-> JStr(SubSeq(item[2], i, i))]
    ELSE [i \in 1..Len(item[2]) |-> JStr(item[2][i][1])]

\* What dict() raises on an element of its sequence ("" for nothing): an
\* element that is not iterable is a TypeError, one that has not exactly
\* two elements a ValueError, one whose first element is unhashable (a
\* list, a dict) a TypeError.
PairError(item) ==
    LET of(elements) ==
            IF Len(elements) # 2 THEN "ValueError"
            ELSE IF elements[1][1] \in {"array", "object"} THEN "TypeError"
            ELSE ""
    IN  IF item[1] \notin {"array", "str", "object"} THEN "TypeError"
        ELSE of(Elements(item))

\* dict(value): an object is its own dict; an array of pairs is the dict of
\* its pairs; an empty array or string is the empty dict; an array with an
\* element that is no pair raises what its first such element raises, a
\* non-empty string raises ValueError (a character has length 1), a value
\* that is not iterable raises TypeError.
dict(value) ==
    LET items == value[2]
        of(errors) ==
            LET bad == {i \in 1..Len(items) : errors[i] # ""}
            IN  IF bad = {}
                THEN [ok |-> TRUE, error |-> "",
                      dict |-> dict_of_pairs([i \in 1..Len(items) |->
                                                 Elements(items[i])])]
                ELSE [ok |-> FALSE, dict |-> EmptyDict,
                      error |-> errors[CHOOSE i \in bad : \A j \in bad : i <= j]]
    IN  IF value[1] = "object"
        THEN [ok |-> TRUE, error |-> "", dict |-> object_dict(value[2])]
        ELSE IF value[1] = "array"
        THEN of([i \in 1..Len(items) |-> PairError(items[i])])
        ELSE IF value[1] = "str"
        THEN IF value[2] = "" THEN [ok |-> TRUE, error |-> "", dict |-> EmptyDict]
             ELSE [ok |-> FALSE, error |-> "ValueError", dict |-> EmptyDict]
        ELSE [ok |-> FALSE, error |-> "TypeError", dict |-> EmptyDict]

\* dict(json.loads(header)) inside try/except (ValueError, TypeError)
json_dict(header) ==
    LET loaded == json_loads(header)
    IN  IF loaded.ok THEN dict(loaded.value)
        ELSE [ok |-> FALSE, error |-> loaded.error, dict |-> EmptyDict]

\* `key in d` for a string key
dict_contains(d, key) == JStr(key) \in DOMAIN d

\* d[key] for a string key the dict holds
dict_getitem(d, key) == d[JStr(key)]

\* d.get(key, default)
dict_get(d, key, default) == IF dict_contains(d, key) THEN d[JStr(key)] ELSE default

\* bool(value) of a value json.loads produced
PyTruthy(value) ==
    \/ value[1] = "bool" /\ value[2]
    \/ value[1] = "int" /\ value[2] # 0
    \/ value[1] = "str" /\ value[2] # ""
    \/ value[1] = "array" /\ value[2] # <<>>
    \/ value[1] = "object" /\ value[2] # <<>>

\* `if not context_string` on a header value
HeaderTruthy(header) == header # None /\ header[1] # EmptyText

PluginRequestOf(auth, instance_context, grafana_context, user_context) ==
    [authorization |-> auth,
     headers |-> [h \in PluginHeaders |->
                     IF h = X_INSTANCE_CONTEXT THEN instance_context
                     ELSE IF h = X_GRAFANA_CONTEXT THEN grafana_context
                     ELSE user_context]]

\* What a plugin scheme did: its outcome and its collaborator calls.  With
\* `sync` set authenticate() has not ended: it stands before the call of
\* get_or_create_user (line 197), holding the credential, the organization
\* and the SyncUser it built.
PluginRan(out, trace, sync) == [out |-> out, trace |-> trace, sync |-> sync]

\* What _get_user did: it returned `user` (None or Some(pk)), it raised
\* `out[1]`, or it stands before get_or_create_user(organization,
\* user_sync_data).
UserIs(user, trace) ==
    [out |-> None, user |-> user, trace |-> trace, sync |-> None]

UserRaised(out, trace) ==
    [out |-> Some(out), user |-> None, trace |-> trace, sync |-> None]

UserSyncs(user_sync_data, trace) ==
    [out |-> None, user |-> None, trace |-> trace, sync |-> Some(user_sync_data)]

\* check_token(token_string, context=context): Some(credential) when the
\* plugin credential of the context's stack carries the secret, None for
\* InvalidToken.
check_token(token_string, context) ==
    LET found == {t \in tokens["PluginAuthToken"] :
                     /\ t.token_string = token_string
                     /\ \/ t.organization = 0
                        \/ /\ dict_get(context, "stack_id", JNull)
                                  = JInt(organizations[t.organization].stack_id)
                           /\ dict_get(context, "org_id", JNull) = JInt(t.organization)}
    IN  IF found = {} THEN None ELSE Some(CHOOSE t \in found : TRUE)

\* organization.users.get(user_id=user_id): Some(pk), None for DoesNotExist
users_get_user_id(organization, user_id) ==
    LET found == {u \in DOMAIN users : /\ users[u].organization = organization
                                         /\ JInt(users[u].user_id) = user_id}
    IN  IF found = {} THEN None ELSE Some(CHOOSE u \in found : TRUE)

\* organization.users.get(username=login): Some(pk), None for DoesNotExist
users_get_username(organization, login) ==
    LET found == {u \in DOMAIN users : /\ users[u].organization = organization
                                         /\ JStr(users[u].username) = login}
    IN  IF found = {} THEN None ELSE Some(CHOOSE u \in found : TRUE)

\* get_or_create_user(organization, user_sync_data): the organization's
\* user of the payload's id, updated from the payload, or a new user row.
get_or_create_user(organization, sync_user) ==
    LET found == users_get_user_id(organization, sync_user.id)
        new == Len(users) + 1
    IN  IF found # None
        THEN [user |-> found[1],
              users |-> [users EXCEPT ![found[1]].username = sync_user.login[2]]]
        ELSE [user |-> new,
              users |-> Append(users, [organization |-> organization,
                                       is_active |-> TRUE,
                                       public_primary_key |-> "U" \o ToString(new),
                                       user_id |-> sync_user.id[2],
                                       username |-> sync_user.login[2]])]

(***************************************************************************)
(* BasePluginAuthentication._get_user (tolerant) and                       *)
(* PluginAuthentication._get_user (strict).                                *)
(***************************************************************************)
\* context.get("IsServiceAccount", False) as a condition
is_service_account(context) ==
    PyTruthy(dict_get(context, "IsServiceAccount", JBool(FALSE)))

\* Faulty variant: only the "UserId" spelling is read.
BasePlugin_user_id_OnlyUserId(context) == dict_get(context, "UserId", JNull)

\* try: user_id = context["UserId"] except KeyError: user_id = context["UserID"]
BasePlugin_user_id(context) ==
    IF dict_contains(context, "UserId") THEN dict_getitem(context, "UserId")
    ELSE dict_getitem(context, "UserID")

\* Faulty variant: "UserID" is read first.
Plugin_user_id_UserIDFirst(context) ==
    dict_get(context, "UserID", dict_get(context, "UserId", JNull))

\* user_id = context.get("UserId", context.get("UserID"))
Plugin_user_id(context) ==
    dict_get(context, "UserId", dict_get(context, "UserID", JNull))

\* Faulty variant: the service-account flag is tested after the lookup.
BasePlugin_get_user_LookupFirst(request, organization) ==
    LET parsed == json_dict(request.headers[X_GRAFANA_CONTEXT])
        context == parsed.dict
        user_id == BasePlugin_user_id(context)
        found == users_get_user_id(organization, user_id)
    IN  IF ~parsed.ok THEN UserIs(None, <<>>)
        ELSE IF ~dict_contains(context, "UserId") /\ ~dict_contains(context, "UserID")
        THEN UserIs(None, <<>>)
        ELSE IF found # None /\ is_service_account(context)
        THEN UserIs(None, <<"users.get">>)
        ELSE UserIs(found, <<"users.get">>)

BasePlugin_get_user(request, organization) ==
    LET parsed == json_dict(request.headers[X_GRAFANA_CONTEXT])
        context == parsed.dict
        user_id == BasePlugin_user_id(context)
        found == users_get_user_id(organization, user_id)
    IN  IF ~parsed.ok THEN UserIs(None, <<>>)
        ELSE IF ~dict_contains(context, "UserId") /\ ~dict_contains(context, "UserID")
        THEN UserIs(None, <<>>)
        ELSE IF is_service_account(context) THEN UserIs(None, <<>>)
        ELSE UserIs(found, <<"users.get">>)

\* The fields SyncUser(...) reads with user_data[...], in order.
SyncFields == <<"id", "name", "login", "email", "role", "avatar_url">>

\* [SyncPermission(action=permission["action"]) for permission in
\* user_data["permissions"]]: None when every permission is an object with
\* an "action", else the exception the comprehension raises.
permissions_error(permissions) ==
    LET items == permissions[2]
        bad == {i \in 1..Len(items) :
                   \/ items[i][1] # "object"
                   \/ ~dict_contains(object_dict(items[i][2]), "action")}
        first == CHOOSE i \in bad : \A j \in bad : i <= j
    IN  IF permissions[1] # "array" THEN Some(Raise("TypeError", "permissions"))
        ELSE IF bad = {} THEN None
        ELSE IF items[first][1] # "object" THEN Some(Raise("TypeError", "permissions"))
        ELSE Some(Raise("KeyError", "action"))

\* Faulty variant: a header that is not a JSON dict counts as an empty
\* payload.
Plugin_sync_user_AbsentIsEmpty(request, organization, trace) ==
    LET parsed == json_dict(request.headers[X_ONCALL_USER_CONTEXT])
        user_data == parsed.dict
        permissions == dict_get(user_data, "permissions", JNull)
        missing == {i \in 1..Len(SyncFields) : ~dict_contains(user_data, SyncFields[i])}
    IN  IF user_data = EmptyDict
        THEN UserRaised(AuthenticationFailed("Non-existent or anonymous user."), trace)
        ELSE IF PyTruthy(permissions) /\ permissions_error(permissions) # None
        THEN UserRaised(permissions_error(permissions)[1], trace)
        ELSE IF missing # {}
        THEN UserRaised(Raise("KeyError",
                              SyncFields[CHOOSE i \in missing : \A j \in missing : i <= j]),
                        trace)
        ELSE UserSyncs([id |-> dict_getitem(user_data, "id"),
                        login |-> dict_getitem(user_data, "login")], trace)

\* The `except User.DoesNotExist` handler of PluginAuthentication._get_user,
\* up to the call of get_or_create_user.  A missing key of the payload is
\* an uncaught KeyError.
Plugin_sync_user(request, organization, trace) ==
    LET parsed == json_dict(request.headers[X_ONCALL_USER_CONTEXT])
        user_data == parsed.dict
        permissions == dict_get(user_data, "permissions", JNull)
        missing == {i \in 1..Len(SyncFields) : ~dict_contains(user_data, SyncFields[i])}
    IN  IF ~parsed.ok
        THEN UserRaised(AuthenticationFailed("User context must be JSON dict."), trace)
        ELSE IF user_data = EmptyDict
        THEN UserRaised(AuthenticationFailed("Non-existent or anonymous user."), trace)
        ELSE IF PyTruthy(permissions) /\ permissions_error(permissions) # None
        THEN UserRaised(permissions_error(permissions)[1], trace)
        ELSE IF missing # {}
        THEN UserRaised(Raise("KeyError",
                              SyncFields[CHOOSE i \in missing : \A j \in missing : i <= j]),
                        trace)
        ELSE UserSyncs([id |-> dict_getitem(user_data, "id"),
                        login |-> dict_getitem(user_data, "login")], trace)

Plugin_get_user(request, organization) ==
    LET parsed == json_dict(request.headers[X_GRAFANA_CONTEXT])
        context == parsed.dict
        user_id == Plugin_user_id(context)
        found == IF user_id # JNull THEN users_get_user_id(organization, user_id)
                 ELSE users_get_username(organization, dict_getitem(context, "Login"))
    IN  IF ~parsed.ok
        THEN UserRaised(AuthenticationFailed("Grafana context must be JSON dict."), <<>>)
        ELSE IF is_service_account(context)
        THEN UserRaised(AuthenticationFailed("Service accounts requests are not allowed."),
                        <<>>)
        ELSE IF user_id = JNull /\ ~dict_contains(context, "Login")
        THEN UserRaised(AuthenticationFailed(
                            "Grafana context must specify a User or UserID."), <<>>)
        ELSE IF found # None THEN UserIs(found, <<"users.get">>)
        ELSE Plugin_sync_user(request, organization, <<"users.get">>)

\* self._get_user of the scheme class
get_user(scheme, request, organization) ==
    IF scheme = "PluginAuthentication" THEN Plugin_get_user(request, organization)
    ELSE BasePlugin_get_user(request, organization)

\* Faulty variant: the keys of the instance context are not tested.
BasePlugin_authenticate_credentials_NoKeyCheck(scheme, token_string, request) ==
    LET context_string == request.headers[X_INSTANCE_CONTEXT]
        parsed == json_dict(context_string)
        context == parsed.dict
        auth_token == check_token(token_string, context)
        got == get_user(scheme, request, auth_token[1].organization)
    IN  IF ~HeaderTruthy(context_string)
        THEN PluginRan(AuthenticationFailed("No instance context provided."), <<>>, None)
        ELSE IF ~parsed.ok
        THEN PluginRan(AuthenticationFailed("Instance context must be JSON dict."), <<>>,
                       None)
        ELSE IF auth_token = None
        THEN PluginRan(AuthenticationFailed("Invalid token."), <<"check_token">>, None)
        ELSE IF auth_token[1].organization = 0
        THEN PluginRan(AuthenticationFailed("No organization associated with token."),
                       <<"check_token">>, None)
        ELSE IF got.out # None
        THEN PluginRan(got.out[1], <<"check_token">> \o got.trace, None)
        ELSE IF got.sync # None
        THEN PluginRan(NoOpinion, <<"check_token">> \o got.trace,
                       Some([auth_token |-> auth_token,
                             organization |-> auth_token[1].organization,
                             user_sync_data |-> got.sync[1]]))
        ELSE PluginRan(Success(IF got.user = None THEN None ELSE UserPrincipal(got.user[1]),
                               auth_token),
                       <<"check_token">> \o got.trace, None)

BasePlugin_authenticate_credentials(scheme, token_string, request) ==
    LET context_string == request.headers[X_INSTANCE_CONTEXT]
        parsed == json_dict(context_string)
        context == parsed.dict
        auth_token == check_token(token_string, context)
        got == get_user(scheme, request, auth_token[1].organization)
    IN  IF ~HeaderTruthy(context_string)
        THEN PluginRan(AuthenticationFailed("No instance context provided."), <<>>, None)
        ELSE IF ~parsed.ok
        THEN PluginRan(AuthenticationFailed("Instance context must be JSON dict."), <<>>,
                       None)
        ELSE IF ~dict_contains(context, "stack_id") \/ ~dict_contains(context, "org_id")
        THEN PluginRan(AuthenticationFailed("Invalid instance context."), <<>>, None)
        ELSE IF auth_token = None
        THEN PluginRan(AuthenticationFailed("Invalid token."), <<"check_token">>, None)
        ELSE IF auth_token[1].organization = 0
        THEN PluginRan(AuthenticationFailed("No organization associated with token."),
                       <<"check_token">>, None)
        ELSE IF got.out # None
        THEN PluginRan(got.out[1], <<"check_token">> \o got.trace, None)
        ELSE IF got.sync # None
        THEN PluginRan(NoOpinion, <<"check_token">> \o got.trace,
                       Some([auth_token |-> auth_token,
                             organization |-> auth_token[1].organization,
                             user_sync_data |-> got.sync[1]]))
        ELSE PluginRan(Success(IF got.user = None THEN None ELSE UserPrincipal(got.user[1]),
                               auth_token),
                       <<"check_token">> \o got.trace, None)

BasePlugin_authenticate(scheme, request) ==
    LET token_string == request.authorization
    IN  IF token_string = ""
        THEN PluginRan(AuthenticationFailed("No token provided"), <<>>, None)
        ELSE BasePlugin_authenticate_credentials(scheme, token_string, request)

(***************************************************************************)
(* GrafanaIncidentStaticKeyAuth.  settings.GRAFANA_INCIDENT_STATIC_API_KEY *)
(* is None or Some(key); a str never equals None.                          *)
(***************************************************************************)
GrafanaIncidentUser == <<"GrafanaIncidentUser">>

\* token_string == settings.GRAFANA_INCIDENT_STATIC_API_KEY
EqualsStaticKey(token_string, key) == key # None /\ key[1] = token_string

StaticKey_authenticate_credentials(token_string, request) ==
    Success(GrafanaIncidentUser, None)

\* Faulty variant: the empty token is tested before the comparison.
StaticKey_authenticate_EmptyFirst(request) ==
    LET token_string == request.authorization
        key == settings.GRAFANA_INCIDENT_STATIC_API_KEY
    IN  IF token_string = ""
        THEN Ran(AuthenticationFailed("No token provided"), <<>>)
        ELSE IF ~EqualsStaticKey(token_string, key) \/ key = None
        THEN Ran(AuthenticationFailed("Wrong token"), <<>>)
        ELSE Ran(StaticKey_authenticate_credentials(token_string, request), <<>>)

StaticKey_authenticate(request) ==
    LET token_string == request.authorization
        key == settings.GRAFANA_INCIDENT_STATIC_API_KEY
    IN  IF ~EqualsStaticKey(token_string, key) \/ key = None
        THEN Ran(AuthenticationFailed("Wrong token"), <<>>)
        ELSE IF token_string = ""
        THEN Ran(AuthenticationFailed("No token provided"), <<>>)
        ELSE Ran(StaticKey_authenticate_credentials(token_string, request), <<>>)

(***************************************************************************)
(* The dispatcher: the schemes of an endpoint run in order; None passes to *)
(* the next scheme, a pair or an exception ends the chain.  A scheme that  *)
(* returns None has changed nothing, so the next one runs on the same      *)
(* tables.  A scheme that stands before setup_organization holds the chain *)
(* until it ends.                                                          *)
(***************************************************************************)
Authenticate(scheme, request) ==
    CASE scheme = "ApiTokenAuthentication" -> ApiToken_authenticate(request)
      [] scheme \in SocialSchemes -> Social_authenticate(scheme, request)
      [] scheme = "ScheduleExportAuthentication" -> ScheduleExport_authenticate(request)
      [] scheme = "UserScheduleExportAuthentication" ->
             UserScheduleExport_authenticate(request)
      [] scheme = "IntegrationBacksyncAuthentication" -> Backsync_authenticate(request)
      [] scheme = "GrafanaServiceAccountAuthentication" ->
             ServiceAccount_authenticate(request)

\* No scheme authenticated the request: it goes on as AnonymousUser and the
\* endpoint's permission check rejects it.
NotAuthenticated ==
    [kind |-> "NotAuthenticated", detail |-> "", user |-> None, auth_token |-> None,
     organization |-> None]

RECURSIVE Dispatch(_, _)
Dispatch(chain, request) ==
    IF chain = <<>> THEN [ran |-> Ran(NotAuthenticated, <<>>), calls |-> <<>>]
    ELSE LET r == Authenticate(Head(chain), request)
             rest == Dispatch(Tail(chain), request)
         IN  IF r.out.kind = "None" /\ ~r.pending
             THEN [ran |-> IF rest.ran.pending
                           THEN Pending(rest.ran.url, r.trace \o rest.ran.trace)
                           ELSE Ran(rest.ran.out, r.trace \o rest.ran.trace),
                   calls |-> <<Head(chain)>> \o rest.calls]
             ELSE [ran |-> r, calls |-> <<Head(chain)>>]

\* authentication_classes of the public API's resolution-notes endpoint
PublicApiChain == <<"GrafanaServiceAccountAuthentication", "ApiTokenAuthentication">>

(***************************************************************************)
(* Inputs.                                                                 *)
(***************************************************************************)
SchedulePk(o) == "S" \o ToString(o)
UserPk(u) == "U" \o ToString(u)

ApiTokenStrings == {"api" \o ToString(u) : u \in 1..(2 * MaxOrgs)}
SaTokenStrings == {GRAFANA_SA_PREFIX \o ToString(o) : o \in OrgPks}
ExportTokenStrings == {"exp_on" \o ToString(o) : o \in OrgPks} \cup
                      {"exp_off" \o ToString(o) : o \in OrgPks}
SocialTokenStrings == {"soc" \o ToString(o) : o \in OrgPks}

ApiAuthValues == {"", "abc123"} \cup ApiTokenStrings
SaAuthValues == {"", "abc123", "api1", GRAFANA_SA_PREFIX \o "123"} \cup SaTokenStrings
BacksyncAuthValues == {"", "abc123"} \cup SocialTokenStrings
ExportTokenValues == {None, Some(""), Some("abc123")} \cup
                     {Some(t) : t \in ExportTokenStrings}
SocialTokenValues == {None, Some(""), Some("abc123")} \cup
                     {Some(t) : t \in SocialTokenStrings}
PkValues == {None, Some("X")} \cup {Some(SchedulePk(o)) : o \in OrgPks} \cup
            {Some(UserPk(ActiveUserOf(o))) : o \in OrgPks}
UrlValues == {None, Some(MalformedUrl), Some(UnknownUrl), Some(UrlOf(1) \o "/")} \cup
             {Some(UrlOf(o)) : o \in OrgPks}
InstanceValues == {None, Some(UnknownInstanceId)} \cup {Some(ToString(o)) : o \in OrgPks}

\* <<Authorization, X-Grafana-URL, X-Grafana-Instance-ID>> of the requests to
\* the service-account scheme: every Authorization value with every url an
\* organization has or a malformed or absent one, the instance id varied
\* where the url branch is not taken and once where it is; the url no
\* organization has with one value of each kind of Authorization.
SaInputs ==
    (SaAuthValues \X (UrlValues \ {Some(UnknownUrl)}) \X {None})
    \cup (SaAuthValues \X {None, Some(MalformedUrl)} \X InstanceValues)
    \cup (SaAuthValues \X {Some(UrlOf(1))} \X {Some(ToString(MaxOrgs))})
    \cup ({"", "abc123", GRAFANA_SA_PREFIX \o "123"} \X {Some(UnknownUrl)} \X {None})

(***************************************************************************)
(* The state machine.  The server answers up to MaxRacers requests at the  *)
(* same time.  A request is answered in the step it arrives in, unless it  *)
(* is a service-account request whose first query of the url branch finds  *)
(* nothing: get_organization then calls setup_organization and queries     *)
(* again, and between these steps other requests arrive and are answered   *)
(* and triggered syncs store their organizations.  A request of the strict *)
(* plugin scheme whose lookup finds no user is likewise in flight up to    *)
(* its call of get_or_create_user.  `racers` is the bag of the requests in *)
(* flight between these steps; `last` is the response in hand, sent before *)
(* the next step is taken.                                                 *)
(***************************************************************************)
Handled(scheme, request, ran, calls) ==
    [scheme |-> scheme, request |-> request, out |-> ran.out, trace |-> ran.trace,
     calls |-> calls, response |-> None]

\* The response to a request that was in flight: `response` is what
\* setup_organization answered it.
HandledInFlight(e, ran) ==
    [scheme |-> e.scheme, request |-> e.request, out |-> ran.out, trace |-> ran.trace,
     calls |-> e.calls, response |-> e.response]

Idle == Handled("idle", EmptyRequest, Ran(NoOpinion, <<>>), <<>>)

\* A request in flight: where it stands in get_organization ("missed":
\* before setup_organization, "triggered": before the second query), the
\* url it looks up, the calls it has made and what setup_organization
\* answered it.
InFlight(pc, scheme, request, calls, url, trace, response) ==
    [pc |-> pc, scheme |-> scheme, request |-> request, calls |-> calls, url |-> url,
     trace |-> trace, response |-> response]

\* A worker is free to take a request.
FreeWorker == BagCardinality(racers) < MaxRacers

Init ==
    /\ organizations \in
           {[o \in OrgPks |-> OrgRow(o, f[o][1], f[o][2])] :
               f \in [OrgPks -> BOOLEAN \X {None, Some(Timestamp)}]}
    /\ users = [u \in 1..(2 * MaxOrgs) |-> UserRow(u)]
    /\ schedules = [o \in OrgPks |->
                       [organization |-> o, public_primary_key |-> SchedulePk(o)]]
    /\ tokens = InitTokens
    /\ settings \in SettingsSet
    /\ syncing = {}
    /\ last = Idle
    /\ racers = EmptyBag

ApiTokenRequest ==
    \E auth \in ApiAuthValues :
        LET request == Request(auth, NoQuery, None, None, None)
            ran == ApiToken_authenticate(request)
        IN  /\ last.scheme = "idle"
            /\ FreeWorker
            /\ last' = Handled("ApiTokenAuthentication", request, ran,
                               <<"ApiTokenAuthentication">>)
            /\ UNCHANGED <<organizations, users, schedules, tokens, settings, syncing, racers>>

SocialTokenRequest ==
    \E scheme \in SocialSchemes, token \in SocialTokenValues :
        LET request == Request("", [NoQuery EXCEPT ![TokenQueryParamName(scheme)] = token],
                               None, None, None)
            ran == Social_authenticate(scheme, request)
        IN  /\ last.scheme = "idle"
            /\ FreeWorker
            /\ last' = Handled(scheme, request, ran, <<scheme>>)
            /\ UNCHANGED <<organizations, users, schedules, tokens, settings, syncing, racers>>

ScheduleExportRequest ==
    \E token \in ExportTokenValues, pk \in PkValues :
        LET request == Request("", [NoQuery EXCEPT ![SCHEDULE_EXPORT_TOKEN_NAME] = token],
                               pk, None, None)
            ran == ScheduleExport_authenticate(request)
        IN  /\ last.scheme = "idle"
            /\ FreeWorker
            /\ last' = Handled("ScheduleExportAuthentication", request, ran,
                               <<"ScheduleExportAuthentication">>)
            /\ UNCHANGED <<organizations, users, schedules, tokens, settings, syncing, racers>>

UserScheduleExportRequest ==
    \E token \in ExportTokenValues, pk \in PkValues :
        LET request == Request("", [NoQuery EXCEPT ![SCHEDULE_EXPORT_TOKEN_NAME] = token],
                               pk, None, None)
            ran == UserScheduleExport_authenticate(request)
        IN  /\ last.scheme = "idle"
            /\ FreeWorker
            /\ last' = Handled("UserScheduleExportAuthentication", request, ran,
                               <<"UserScheduleExportAuthentication">>)
            /\ UNCHANGED <<organizations, users, schedules, tokens, settings, syncing, racers>>

BacksyncRequest ==
    \E auth \in BacksyncAuthValues :
        LET request == Request(auth, NoQuery, None, None, None)
            ran == Backsync_authenticate(request)
        IN  /\ last.scheme = "idle"
            /\ FreeWorker
            /\ last' = Handled("IntegrationBacksyncAuthentication", request, ran,
                               <<"IntegrationBacksyncAuthentication">>)
            /\ UNCHANGED <<organizations, users, schedules, tokens, settings, syncing, racers>>

\* A request arrives at the service-account scheme and runs to the end of
\* authenticate(), or to the call of setup_organization: then it is in
\* flight.
ServiceAccountRequest ==
    \E input \in SaInputs :
        LET request == Request(input[1], NoQuery, None, input[2], input[3])
            ran == ServiceAccount_authenticate(request)
        IN  /\ last.scheme = "idle"
            /\ FreeWorker
            /\ IF ran.pending
               THEN /\ racers' = racers (+) SetToBag({InFlight("missed",
                                       "GrafanaServiceAccountAuthentication", request,
                                       <<"GrafanaServiceAccountAuthentication">>,
                                       ran.url, ran.trace, None)})
                    /\ last' = last
               ELSE /\ last' = Handled("GrafanaServiceAccountAuthentication", request, ran,
                                       <<"GrafanaServiceAccountAuthentication">>)
                    /\ racers' = racers
            /\ UNCHANGED <<organizations, users, schedules, tokens, settings, syncing>>

\* A request arrives at the public API endpoint and runs the endpoint's
\* scheme chain, to its end or to the call of setup_organization.
PublicApiRequest ==
    \E input \in SaInputs :
        LET request == Request(input[1], NoQuery, None, input[2], input[3])
            d == Dispatch(PublicApiChain, request)
        IN  /\ last.scheme = "idle"
            /\ FreeWorker
            /\ IF d.ran.pending
               THEN /\ racers' = racers (+) SetToBag({InFlight("missed", "PublicApi",
                                       request, d.calls, d.ran.url, d.ran.trace, None)})
                    /\ last' = last
               ELSE /\ last' = Handled("PublicApi", request, d.ran, d.calls)
                    /\ racers' = racers
            /\ UNCHANGED <<organizations, users, schedules, tokens, settings, syncing>>

\* TriggerOrganizationSync's answer: conflict while a sync of the url is in
\* flight, ok otherwise.
setup_response(sync, url) == IF url \in sync THEN "conflict" ELSE "ok"

\* Faulty variant: a conflict answer of the sync trigger fails the request.
after_setup_organization_ConflictRaises(response) ==
    IF response = "conflict"
    THEN Some(AuthenticationFailed("Organization sync failed."))
    ELSE None

\* get_organization after setup_organization returned: the response is
\* ignored, nothing is raised, the table is queried again.
after_setup_organization(response) == None

\* setup_organization(url, auth) of a request in flight (line 393).
RaceTrigger ==
    \E e \in BagToSet(racers) :
        LET response == setup_response(syncing, e.url)
            raised == after_setup_organization(response)
            triggered == InFlight("triggered", e.scheme, e.request, e.calls, e.url,
                                  Append(e.trace, "setup_organization"), Some(response))
        IN  /\ e.pc = "missed"
            /\ last.scheme = "idle"
            /\ syncing' = setup_organization(e.url, e.request.authorization)
            /\ IF raised = None
               THEN /\ racers' = (racers (-) SetToBag({e})) (+) SetToBag({triggered})
                    /\ last' = last
               ELSE /\ racers' = racers (-) SetToBag({e})
                    /\ last' = HandledInFlight(triggered, Ran(raised[1], triggered.trace))
            /\ UNCHANGED <<organizations, users, schedules, tokens, settings>>

\* The second query of a request in flight (line 394) and the rest of
\* authenticate().
RaceRequery ==
    \E e \in BagToSet(racers) :
        /\ e.pc = "triggered"
        /\ last.scheme = "idle"
        /\ racers' = racers (-) SetToBag({e})
        /\ last' = HandledInFlight(e, ServiceAccount_authenticate_resume(e.request, e.url,
                                                                          e.trace))
        /\ UNCHANGED <<organizations, users, schedules, tokens, settings, syncing>>

\* The response is sent; nothing of the request is kept.
Respond ==
    /\ last.scheme # "idle"
    /\ last' = Idle
    /\ UNCHANGED <<organizations, users, schedules, tokens, settings, syncing, racers>>

\* A triggered organization sync stores its organization.
CompleteSync ==
    \E url \in syncing :
        /\ last.scheme = "idle"
        /\ organizations' = SyncedOrgs(organizations, url)
        /\ syncing' = syncing \ {url}
        /\ UNCHANGED <<users, schedules, tokens, settings, last, racers>>

Next ==
    \/ ApiTokenRequest
    \/ SocialTokenRequest
    \/ ScheduleExportRequest
    \/ UserScheduleExportRequest
    \/ BacksyncRequest
    \/ ServiceAccountRequest
    \/ PublicApiRequest
    \/ RaceTrigger
    \/ RaceRequery
    \/ Respond
    \/ CompleteSync

Spec == Init /\ [][Next]_vars

(***************************************************************************)
(* Requests racing on one unknown url: service-account requests whose      *)
(* X-Grafana-URL values are spellings of the same url no organization has. *)
(***************************************************************************)
RaceArrive ==
    \E auth \in {GRAFANA_SA_PREFIX \o "123"},
       grafana_url \in {Some(UnknownUrl), Some(UnknownUrl \o "/")} :
        LET request == Request(auth, NoQuery, None, grafana_url, None)
            ran == ServiceAccount_authenticate(request)
        IN  /\ last.scheme = "idle"
            /\ FreeWorker
            /\ IF ran.pending
               THEN /\ racers' = racers (+) SetToBag({InFlight("missed",
                                       "GrafanaServiceAccountAuthentication", request,
                                       <<"GrafanaServiceAccountAuthentication">>,
                                       ran.url, ran.trace, None)})
                    /\ last' = last
               ELSE /\ last' = Handled("GrafanaServiceAccountAuthentication", request, ran,
                                       <<"GrafanaServiceAccountAuthentication">>)
                    /\ racers' = racers
            /\ UNCHANGED <<organizations, users, schedules, tokens, settings, syncing>>

RaceNext ==
    \/ RaceArrive
    \/ RaceTrigger
    \/ RaceRequery
    \/ Respond
    \/ CompleteSync

SpecRace == Init /\ [][RaceNext]_vars

(***************************************************************************)
(* Requests of the Grafana plugin: the two plugin schemes on requests      *)
(* whose Authorization value and three JSON headers are drawn from the     *)
(* values below.  The schemes read neither the settings nor the lifecycle  *)
(* of the organization, so this specification starts from the fixture with *)
(* active organizations.  A request of the strict scheme that finds no     *)
(* user and holds a sync payload calls get_or_create_user; nothing is held *)
(* between its lookup and that call, so other requests look up, and create *)
(* users, in between: such a request is in flight in `racers` from its     *)
(* lookup to its call.  check_token reads rows no plugin request writes,   *)
(* so it is taken in the step of the lookup.                               *)
(***************************************************************************)
PluginTokenOf(o) == "plug" \o ToString(o)

PluginAuthValues == {"", "abc123", "plug_noorg"} \cup {PluginTokenOf(o) : o \in OrgPks}

\* The object of the members that are present, in the order given:
\* opt[i] is <<key, None>> or <<key, Some(document)>>.
RECURSIVE ObjectMembers(_)
ObjectMembers(opt) ==
    IF opt = <<>> THEN <<>>
    ELSE IF Head(opt)[2] = None THEN ObjectMembers(Tail(opt))
    ELSE <<<<Head(opt)[1], Head(opt)[2][1]>>>> \o ObjectMembers(Tail(opt))

ObjectOf(opt) == JObject(ObjectMembers(opt))

\* The two-element array [key, document].
JPair(key, document) == JArray(<<JStr(key), document>>)

GoodInstanceContext(o) ==
    Some(JObject(<<<<"stack_id", JInt(o)>>, <<"org_id", JInt(o)>>>>))

\* The last three are arrays dict() accepts: pairs only; pairs and a pair
\* whose key is a number; and an object of two keys, taken as the pair of
\* its keys.
InstanceContextValues ==
    {None, Some(EmptyText), Some(NotJson), Some(JInt(5)), Some(JArray(<<>>)),
     Some(JObject(<<<<"stack_id", JInt(1)>>>>)),
     Some(JArray(<<JStr("abc")>>)),
     Some(JArray(<<JPair("stack_id", JInt(1)), JPair("org_id", JInt(1))>>)),
     Some(JArray(<<JPair("stack_id", JInt(1)), JPair("org_id", JInt(1)),
                   JArray(<<JInt(7), JInt(8)>>)>>)),
     Some(JArray(<<JObject(<<<<"stack_id", JInt(1)>>, <<"org_id", JInt(1)>>>>)>>))}
    \cup {GoodInstanceContext(o) : o \in OrgPks}

UserIdValues == {None, Some(JNull), Some(JInt(UserIdOf(1))), Some(JInt(UnknownUserId))}
UserIDValues == {None, Some(JInt(UserIdOf(1))), Some(JInt(UnknownUserId))}
ServiceAccountValues == {None, Some(JBool(TRUE)), Some(JBool(FALSE))}
LoginValues == {None, Some(JStr(LoginOf(1))), Some(JStr(UnknownLogin))}

\* The third and fourth are arrays dict() accepts: user 1 named by a pair
\* next to pairs whose keys are a boolean and a number that equals it, and
\* an unknown user named by a pair next to a pair whose key is null.
GrafanaContextValues ==
    {None, Some(NotJson), Some(JStr("x")), Some(JArray(<<JInt(1)>>)),
     Some(JArray(<<JPair("UserId", JInt(UserIdOf(1))),
                   JArray(<<JBool(TRUE), JInt(2)>>), JArray(<<JInt(1), JInt(3)>>)>>)),
     Some(JArray(<<JPair("UserId", JInt(UnknownUserId)),
                   JArray(<<JNull, JInt(2)>>)>>))}
    \cup
    {Some(ObjectOf(<<<<"UserId", a>>, <<"UserID", b>>, <<"IsServiceAccount", c>>,
                     <<"Login", d>>>>)) :
        a \in UserIdValues, b \in UserIDValues, c \in ServiceAccountValues,
        d \in LoginValues}

\* A user-sync payload: its fields, and a permission list when given.
SyncPayload(email, permissions) ==
    <<<<"id", Some(JInt(UnknownUserId))>>, <<"name", Some(JStr("name"))>>,
      <<"login", Some(JStr(NewLogin))>>, <<"email", email>>,
      <<"role", Some(JStr("role"))>>, <<"avatar_url", Some(JStr("avatar_url"))>>,
      <<"permissions", permissions>>>>

\* The first two payloads are full, without and with a permission list;
\* the last value is an array dict() accepts whose only pair has a number
\* as its key.
UserContextValues ==
    {None, Some(NotJson), Some(JObject(<<>>)), Some(JArray(<<>>)),
     Some(ObjectOf(SyncPayload(Some(JStr("email")), None))),
     Some(ObjectOf(SyncPayload(Some(JStr("email")),
                               Some(JArray(<<JObject(<<<<"action", JStr("read")>>>>)>>))))),
     Some(ObjectOf(SyncPayload(None, None))),
     Some(ObjectOf(SyncPayload(Some(JStr("email")),
                               Some(JArray(<<JObject(<<<<"action", JStr("read")>>>>),
                                             JObject(<<>>)>>))))),
     Some(JArray(<<JArray(<<JInt(1), JInt(2)>>)>>))}

\* The Grafana contexts sent with every value of X-Oncall-User-Context: an
\* unknown user named by either spelling of the id or by login, user 1, a
\* service account, and a context that names nobody.
SyncingContextValues ==
    {Some(ObjectOf(<<<<"UserId", c[1]>>, <<"UserID", c[2]>>, <<"IsServiceAccount", c[3]>>,
                     <<"Login", c[4]>>>>)) :
        c \in {<<Some(JInt(UnknownUserId)), None, None, None>>,
               <<None, Some(JInt(UnknownUserId)), None, None>>,
               <<None, None, None, Some(JStr(UnknownLogin))>>,
               <<Some(JInt(UserIdOf(1))), None, None, None>>,
               <<Some(JInt(UnknownUserId)), None, Some(JBool(TRUE)), None>>,
               <<None, None, None, None>>}}

\* The requests: every Authorization value with every instance context;
\* behind valid credentials, every Grafana context without the
\* X-Oncall-User-Context header and with an empty object in it, and the
\* contexts above with every value of that header.
PluginInputs ==
    {<<auth, instance_context, grafana_context, None>> :
        auth \in PluginAuthValues, instance_context \in InstanceContextValues,
        grafana_context \in {None, Some(JObject(<<<<"UserId", JInt(UserIdOf(1))>>>>))}}
    \cup
    {<<PluginTokenOf(c[1]), GoodInstanceContext(c[1]), c[2], c[3]>> :
        c \in (OrgPks \X GrafanaContextValues \X {None, Some(JObject(<<>>))})
              \cup (OrgPks \X SyncingContextValues \X UserContextValues)}

PluginInit ==
    /\ Init
    /\ \A o \in OrgPks : ~organizations[o].is_moved /\ organizations[o].deleted_at = None
    /\ settings.LICENSE = CLOUD_LICENSE_NAME

BasePluginRequest ==
    \E input \in PluginInputs :
        LET request == PluginRequestOf(input[1], input[2], input[3], input[4])
            ran == BasePlugin_authenticate("BasePluginAuthentication", request)
        IN  /\ last.scheme = "idle"
            /\ FreeWorker
            /\ last' = Handled("BasePluginAuthentication", request, ran,
                               <<"BasePluginAuthentication">>)
            /\ UNCHANGED <<organizations, users, schedules, tokens, settings, syncing,
                           racers>>

\* A request arrives at the strict scheme and runs to the end of
\* authenticate(), or to the call of get_or_create_user: then it is in
\* flight, holding what it read.
PluginRequest ==
    \E input \in PluginInputs :
        LET request == PluginRequestOf(input[1], input[2], input[3], input[4])
            ran == BasePlugin_authenticate("PluginAuthentication", request)
        IN  /\ last.scheme = "idle"
            /\ FreeWorker
            /\ IF ran.sync # None
               THEN /\ racers' = racers (+) SetToBag({
                                     [pc |-> "unsynced", scheme |-> "PluginAuthentication",
                                      request |-> request,
                                      calls |-> <<"PluginAuthentication">>,
                                      trace |-> ran.trace,
                                      auth_token |-> ran.sync[1].auth_token,
                                      organization |-> ran.sync[1].organization,
                                      user_sync_data |-> ran.sync[1].user_sync_data]})
                    /\ last' = last
               ELSE /\ last' = Handled("PluginAuthentication", request, ran,
                                       <<"PluginAuthentication">>)
                    /\ racers' = racers
            /\ UNCHANGED <<organizations, users, schedules, tokens, settings, syncing>>

\* get_or_create_user(organization, user_sync_data) of a request in flight
\* (line 197) on the User table as it is now, and the return of
\* authenticate() (line 125).
PluginGetOrCreateUser ==
    \E e \in BagToSet(racers) :
        LET synced == get_or_create_user(e.organization, e.user_sync_data)
        IN  /\ last.scheme = "idle"
            /\ racers' = racers (-) SetToBag({e})
            /\ users' = synced.users
            /\ last' = Handled(e.scheme, e.request,
                               PluginRan(Success(UserPrincipal(synced.user), e.auth_token),
                                         Append(e.trace, "get_or_create_user"), None),
                               e.calls)
            /\ UNCHANGED <<organizations, schedules, tokens, settings, syncing>>

PluginNext ==
    \/ BasePluginRequest
    \/ PluginRequest
    \/ PluginGetOrCreateUser
    \/ Respond

SpecPlugin == PluginInit /\ [][PluginNext]_vars

(***************************************************************************)
(* Requests of Grafana Incident: the static-key scheme under every         *)
(* configuration of the key (unset, empty, a key) and of the license.      *)
(***************************************************************************)
StaticKeyValues == {None, Some(""), Some("key1"), Some("key2"), Some("Bearer key1")}

StaticAuthValues == {"", "key1", "key2", "KEY1", "key", "key11", "Bearer key1", "None"}

StaticKeyInit ==
    /\ organizations = [o \in OrgPks |-> OrgRow(o, FALSE, None)]
    /\ users = [u \in 1..(2 * MaxOrgs) |-> UserRow(u)]
    /\ schedules = [o \in OrgPks |->
                       [organization |-> o, public_primary_key |-> SchedulePk(o)]]
    /\ tokens = InitTokens
    /\ settings \in {[LICENSE |-> c.LICENSE, ORG_SLUG |-> c.ORG_SLUG,
                       STACK_SLUG |-> c.STACK_SLUG,
                       GRAFANA_INCIDENT_STATIC_API_KEY |-> key] :
                          c \in SettingsSet, key \in StaticKeyValues}
    /\ syncing = {}
    /\ last = Idle
    /\ racers = EmptyBag

StaticKeyRequest ==
    \E auth \in StaticAuthValues :
        LET request == Request(auth, NoQuery, None, None, None)
            ran == StaticKey_authenticate(request)
        IN  /\ last.scheme = "idle"
            /\ last' = Handled("GrafanaIncidentStaticKeyAuth", request, ran,
                               <<"GrafanaIncidentStaticKeyAuth">>)
            /\ UNCHANGED <<organizations, users, schedules, tokens, settings, syncing,
                           racers>>

StaticKeyNext ==
    \/ StaticKeyRequest
    \/ Respond

SpecStaticKey == StaticKeyInit /\ [][StaticKeyNext]_vars

(***************************************************************************)
(* Vocabulary of the properties.                                           *)
(***************************************************************************)
Count(e, seq) == Cardinality({i \in 1..Len(seq) : seq[i] = e})

MovedOrDeleted(o) == organizations[o].is_moved \/ organizations[o].deleted_at # None

OrganizationFailures == {"OrganizationMovedException", "OrganizationDeletedException"}

\* The outcomes that are an exception raised by a scheme.
RaisedKinds == {"AuthenticationFailed", "Throttled"} \cup OrganizationFailures

ExportSchemes == {"ScheduleExportAuthentication", "UserScheduleExportAuthentication"}

HeaderSchemes == {"ApiTokenAuthentication", "IntegrationBacksyncAuthentication"}

\* The token string the scheme of `last` reads from the request.
PresentedToken ==
    IF last.scheme \in HeaderSchemes THEN Some(last.request.authorization)
    ELSE IF last.scheme \in SocialSchemes
    THEN last.request.query[TokenQueryParamName(last.scheme)]
    ELSE IF last.scheme \in ExportSchemes
    THEN last.request.query[SCHEDULE_EXPORT_TOKEN_NAME]
    ELSE None

\* The stored credentials the presented token matches.
PresentedCredentials ==
    IF last.scheme \in HeaderSchemes \cup SocialSchemes \cup ExportSchemes
       /\ Truthy(PresentedToken)
    THEN {t \in tokens[ModelOf(last.scheme)] : t.token_string = PresentedToken[1]}
    ELSE {}

\* The resource id an export credential is bound to.
BoundResource(t) ==
    IF t.model = "ScheduleExportAuthToken"
    THEN schedules[t.schedule].public_primary_key
    ELSE users[t.user].public_primary_key

ResourceMismatchDetails == {"Invalid schedule export token for schedule",
                            "Invalid schedule export token for user"}

InvalidTokenDetails == {"Invalid token.", "Invalid token"}

(***************************************************************************)
(* C1: in every scheme, a credential that reaches a moved or deleted       *)
(* organization ends in the organization-moved/organization-deleted        *)
(* failure whatever else holds of the user or the credential, and no       *)
(* scheme returns a principal for a moved or deleted organization.         *)
(***************************************************************************)
C1_MovedOrDeletedBlocksEveryScheme ==
    /\ \A t \in PresentedCredentials :
           MovedOrDeleted(t.organization) =>
               /\ last.out.kind \in OrganizationFailures
               /\ last.out.organization = Some(t.organization)
    /\ (last.out.kind = "success" /\ last.out.auth_token # None) =>
           ~MovedOrDeleted(last.out.auth_token[1].organization)

\* The same statement with the social-token schemes left out.
MovedOrDeletedBlocksNonSocialSchemes ==
    last.scheme \notin SocialSchemes => C1_MovedOrDeletedBlocksEveryScheme

(***************************************************************************)
(* C2 as stated: a social-token scheme given a non-empty token that        *)
(* matches no stored credential raises an authentication failure and does  *)
(* not return None.                                                        *)
(***************************************************************************)
C2_UnknownSocialTokenHardFails ==
    (/\ last.scheme \in SocialSchemes
     /\ Truthy(PresentedToken)
     /\ PresentedCredentials = {})
        => last.out.kind \in RaisedKinds

(***************************************************************************)
(* C2 as amended: a social-token scheme given a non-empty token that       *)
(* matches no stored credential consults the Token Store once and returns  *)
(* None ("no opinion"), so that a later scheme of the endpoint is tried.   *)
(***************************************************************************)
C2_UnknownSocialTokenIsNoOpinion ==
    (/\ last.scheme \in SocialSchemes
     /\ Truthy(PresentedToken)
     /\ PresentedCredentials = {})
        => /\ last.out = NoOpinion
           /\ last.trace = <<"validate_token_string">>

C2_Witness ==
    /\ last.scheme = "MattermostTokenAuthentication"
    /\ PresentedToken = Some("abc123")
    /\ last.out.kind = "None"
    /\ last.trace = <<"validate_token_string">>

(***************************************************************************)
(* C3: a social-token scheme whose token query parameter is absent or      *)
(* empty returns None without raising and without consulting the Token     *)
(* Store.                                                                  *)
(***************************************************************************)
C3_AbsentSocialTokenIsNoOpinion ==
    (last.scheme \in SocialSchemes /\ ~Truthy(PresentedToken))
        => /\ last.out = NoOpinion
           /\ last.trace = <<>>

C3_Witness ==
    /\ last.scheme = "GoogleTokenAuthentication"
    /\ PresentedToken = Some("")
    /\ last.out = NoOpinion
    /\ last.trace = <<>>

(***************************************************************************)
(* Vocabulary of the service-account properties.                           *)
(***************************************************************************)
ServiceAccountScheme == "GrafanaServiceAccountAuthentication"

Prefixed(request) == StartsWith(request.authorization, GRAFANA_SA_PREFIX)

\* The request takes the resolver's URL branch: the header holds a
\* well-formed url.
UrlBranch(request) ==
    /\ Truthy(request.headers[X_GRAFANA_URL])
    /\ validate_url(request.headers[X_GRAFANA_URL][1]) # None

\* The url the URL branch looks up.
LookupUrl(request) == RStripSlash(request.headers[X_GRAFANA_URL][1])

StoredWithUrl(orgs, url) == {o \in DOMAIN orgs : orgs[o].grafana_url = url}

InstanceBranch(request) ==
    /\ ~UrlBranch(request)
    /\ settings.LICENSE = CLOUD_LICENSE_NAME
    /\ Truthy(request.headers[X_GRAFANA_INSTANCE_ID])

SlugBranch(request) ==
    /\ ~UrlBranch(request)
    /\ settings.LICENSE # CLOUD_LICENSE_NAME

\* No stored organization answers the lookup of the request's branch.
Unresolvable(request) ==
    \/ UrlBranch(request) /\ StoredWithUrl(organizations, LookupUrl(request)) = {}
    \/ /\ InstanceBranch(request)
       /\ \A o \in DOMAIN organizations :
              ToString(organizations[o].stack_id) # request.headers[X_GRAFANA_INSTANCE_ID][1]
    \/ /\ SlugBranch(request)
       /\ \A o \in DOMAIN organizations :
              \/ organizations[o].org_slug # settings.ORG_SLUG
              \/ organizations[o].stack_slug # settings.STACK_SLUG

OrganizationNotFound == AuthenticationFailed("Organization not found.")

SyncInProgress == Throttled("Organization being synced, please retry.")

(***************************************************************************)
(* C4 as stated: the service-account scheme returns None for a non-empty   *)
(* Authorization value without the prefix, and fails with "Organization    *)
(* not found." for a prefixed value whose organization no resolver branch  *)
(* (url, instance id, static slugs) can resolve.                           *)
(***************************************************************************)
C4_UnresolvableIsOrganizationNotFound ==
    last.scheme = ServiceAccountScheme =>
        /\ (last.request.authorization # "" /\ ~Prefixed(last.request))
               => last.out = NoOpinion
        /\ (Prefixed(last.request) /\ Unresolvable(last.request))
               => last.out = OrganizationNotFound

(***************************************************************************)
(* C4 as amended: the service-account scheme returns None for a non-empty  *)
(* Authorization value without the prefix; a prefixed value fails with     *)
(* "Organization not found." when the lookup by instance id or by the      *)
(* static slugs finds no organization, and with the retryable Throttled    *)
(* signal, never with "Organization not found.", when the lookup by url    *)
(* finds none.                                                             *)
(***************************************************************************)
C4_UnresolvableByBranch ==
    last.scheme = ServiceAccountScheme =>
        /\ (last.request.authorization # "" /\ ~Prefixed(last.request))
               => last.out = NoOpinion
        /\ (/\ Prefixed(last.request)
            /\ Unresolvable(last.request)
            /\ ~UrlBranch(last.request))
               => last.out = OrganizationNotFound
        /\ (/\ Prefixed(last.request)
            /\ Unresolvable(last.request)
            /\ UrlBranch(last.request))
               => last.out = SyncInProgress
        /\ (Prefixed(last.request) /\ UrlBranch(last.request))
               => last.out # OrganizationNotFound

C4_Witness ==
    /\ last.scheme = ServiceAccountScheme
    /\ Prefixed(last.request)
    /\ InstanceBranch(last.request)
    /\ Unresolvable(last.request)
    /\ last.out = OrganizationNotFound

(***************************************************************************)
(* C5: on the endpoint whose chain is [service account, API token] the     *)
(* service-account scheme runs first and exactly once; the API-token       *)
(* scheme runs, exactly once, if and only if the service-account scheme    *)
(* returned None, that is if and only if the Authorization value is        *)
(* non-empty and lacks the prefix.  With an empty Authorization value, or  *)
(* a prefixed value no service-account credential carries, the             *)
(* service-account scheme raises, the API-token scheme never runs and the  *)
(* request is rejected.                                                    *)
(***************************************************************************)
C5_ServiceAccountFirstThenApiToken ==
    last.scheme = "PublicApi" =>
        LET auth == last.request.authorization
            skipped == auth # "" /\ ~Prefixed(last.request)
        IN  /\ Len(last.calls) >= 1
            /\ last.calls[1] = ServiceAccountScheme
            /\ Count(ServiceAccountScheme, last.calls) = 1
            /\ Count("ApiTokenAuthentication", last.calls) = (IF skipped THEN 1 ELSE 0)
            /\ skipped <=>
                   LET ran == ServiceAccount_authenticate(last.request)
                   IN  ~ran.pending /\ ran.out = NoOpinion
            /\ (\/ auth = ""
                \/ /\ Prefixed(last.request)
                   /\ \A t \in tokens["ServiceAccountToken"] : t.token_string # auth)
                   => /\ last.calls = <<ServiceAccountScheme>>
                      /\ last.out.kind \in RaisedKinds

C5_Witness ==
    /\ last.scheme = "PublicApi"
    /\ last.request.authorization = "abc123"
    /\ last.calls = <<ServiceAccountScheme, "ApiTokenAuthentication">>
    /\ last.out = AuthenticationFailed("Invalid token.")

(***************************************************************************)
(* C6: on that endpoint a request with no API token and a valid            *)
(* service-account token (prefixed, its organization stored under the      *)
(* X-Grafana-URL value, neither moved nor deleted, secret accepted) is     *)
(* authenticated by the service-account scheme; the API-token scheme is    *)
(* not run and contributes no failure.                                     *)
(***************************************************************************)
C6_ServiceAccountTokenAuthenticates ==
    last.scheme = "PublicApi" =>
        \A t \in tokens["ServiceAccountToken"] :
            (/\ last.request.authorization = t.token_string
             /\ Prefixed(last.request)
             /\ UrlBranch(last.request)
             /\ organizations[t.organization].grafana_url = LookupUrl(last.request)
             /\ ~MovedOrDeleted(t.organization))
                => /\ last.out = Success(ServiceAccountUser(t.organization), Some(t))
                   /\ last.calls = <<ServiceAccountScheme>>
                   /\ Count("validate_token_string", last.trace) = 0

C6_Witness ==
    /\ last.scheme = "PublicApi"
    /\ last.request.authorization = GRAFANA_SA_PREFIX \o "1"
    /\ last.request.headers[X_GRAFANA_URL] = Some(UrlOf(1) \o "/")
    /\ last.out.kind = "success"
    /\ last.out.user = ServiceAccountUser(1)
    /\ last.calls = <<ServiceAccountScheme>>

(***************************************************************************)
(* C7 as stated: in both schedule-export schemes a stored token whose      *)
(* bound resource id differs from the pk of the request path always fails  *)
(* with the resource-mismatch failure, never with the invalid-token        *)
(* failure, also when the token is deactivated.                            *)
(***************************************************************************)
C7_MismatchAlwaysResourceMismatch ==
    last.scheme \in ExportSchemes =>
        \A t \in PresentedCredentials :
            Some(BoundResource(t)) # last.request.pk
                => /\ last.out.kind = "AuthenticationFailed"
                   /\ last.out.detail \in ResourceMismatchDetails

(***************************************************************************)
(* C7 as amended: in both schedule-export schemes a stored token whose     *)
(* bound resource id differs from the pk of the request path fails with    *)
(* the organization-moved/organization-deleted failure when its            *)
(* organization is moved or deleted and with the resource-mismatch failure *)
(* otherwise, never with the invalid-token failure, also when the token is *)
(* deactivated.                                                            *)
(***************************************************************************)
C7_MismatchIsResourceMismatchUnlessOrgGone ==
    last.scheme \in ExportSchemes =>
        \A t \in PresentedCredentials :
            Some(BoundResource(t)) # last.request.pk
                => /\ last.out.detail \notin InvalidTokenDetails
                   /\ IF MovedOrDeleted(t.organization)
                      THEN last.out.kind \in OrganizationFailures
                      ELSE /\ last.out.kind = "AuthenticationFailed"
                           /\ last.out.detail \in ResourceMismatchDetails

C7_Witness ==
    /\ last.scheme = "UserScheduleExportAuthentication"
    /\ PresentedToken = Some("exp_off1")
    /\ last.request.pk = Some(UserPk(ActiveUserOf(2)))
    /\ ~MovedOrDeleted(1)
    /\ last.out = AuthenticationFailed("Invalid schedule export token for user")

(***************************************************************************)
(* C8: in both schedule-export schemes a token with active = false never   *)
(* authenticates; when its secret matches, its organization is neither     *)
(* moved nor deleted and its bound resource id equals the requested pk,    *)
(* the failure is "Export token is deactivated".                           *)
(***************************************************************************)
C8_DeactivatedExportTokenFails ==
    last.scheme \in ExportSchemes =>
        \A t \in PresentedCredentials :
            ~t.active
                => /\ last.out.kind # "success"
                   /\ (/\ ~MovedOrDeleted(t.organization)
                       /\ Some(BoundResource(t)) = last.request.pk)
                          => last.out = AuthenticationFailed("Export token is deactivated")

C8_Witness ==
    /\ last.scheme = "ScheduleExportAuthentication"
    /\ PresentedToken = Some("exp_off2")
    /\ last.request.pk = Some(SchedulePk(2))
    /\ ~MovedOrDeleted(2)
    /\ last.out = AuthenticationFailed("Export token is deactivated")

(***************************************************************************)
(* C9: ApiTokenAuthentication.authenticate decides in this order: unknown  *)
(* token, invalid-token failure; organization moved, organization-moved    *)
(* failure; organization deleted_at set, organization-deleted failure;     *)
(* user not active, inactive-account failure; otherwise success with       *)
(* (token.user, token).  A valid token of an inactive user whose           *)
(* organization is deleted gets the organization-deleted failure.          *)
(***************************************************************************)
C9_ApiTokenDecisionOrder ==
    last.scheme = "ApiTokenAuthentication" =>
        /\ (\A t \in tokens["ApiAuthToken"] : t.token_string # last.request.authorization)
               => last.out = AuthenticationFailed("Invalid token.")
        /\ \A t \in tokens["ApiAuthToken"] :
               t.token_string = last.request.authorization =>
                   last.out =
                       IF organizations[t.organization].is_moved
                       THEN OrganizationMovedException(t.organization)
                       ELSE IF organizations[t.organization].deleted_at # None
                       THEN OrganizationDeletedException(t.organization)
                       ELSE IF ~users[t.user].is_active
                       THEN AuthenticationFailed(
                                "Only active users are allowed to perform this action.")
                       ELSE Success(UserPrincipal(t.user), Some(t))

C9_Witness ==
    /\ last.scheme = "ApiTokenAuthentication"
    /\ last.request.authorization = "api" \o ToString(InactiveUserOf(1))
    /\ ~organizations[1].is_moved
    /\ organizations[1].deleted_at # None
    /\ last.out = OrganizationDeletedException(1)

(***************************************************************************)
(* C10: in the resolver's URL branch a well-formed url that no stored      *)
(* organization has makes the scheme call setup_organization exactly once  *)
(* and then query again exactly once; if the organization is still absent  *)
(* the request fails with Throttled, which is none of the terminal         *)
(* authentication failures; a url that a stored organization has on the    *)
(* first query never calls setup_organization.                             *)
(***************************************************************************)
\* The calls of get_organization in a trace of the scheme.
ResolverCalls(trace) ==
    IF Count("validate_token", trace) = 0 THEN trace
    ELSE SubSeq(trace, 1, Len(trace) - 1)

UrlSchemes == {ServiceAccountScheme, "PublicApi"}

C10_SyncOnceThenRequeryOnce ==
    [][/\ \* answered in the step it arrives in: a stored organization has the url
          (/\ last.scheme = "idle"
           /\ last'.scheme \in UrlSchemes
           /\ racers' = racers
           /\ Prefixed(last'.request)
           /\ UrlBranch(last'.request))
              => /\ StoredWithUrl(organizations, LookupUrl(last'.request)) # {}
                 /\ ResolverCalls(last'.trace) = <<"filter_grafana_url">>
                 /\ organizations' = organizations
                 /\ syncing' = syncing
                 /\ last'.out.kind # "Throttled"
       /\ \* every request in flight missed on its first query and goes on to
          \* one call of setup_organization
          \A e \in BagToSet(racers') :
              /\ UrlBranch(e.request) /\ e.url = LookupUrl(e.request)
              /\ e.pc = "missed" =>
                     /\ e.trace = <<"filter_grafana_url">>
                     /\ (BagCardinality(racers') > BagCardinality(racers)
                         /\ CopiesIn(e, racers') > CopiesIn(e, racers))
                            => /\ StoredWithUrl(organizations, e.url) = {}
                               /\ syncing' = syncing
              /\ e.pc = "triggered" =>
                     e.trace = <<"filter_grafana_url", "setup_organization">>
       /\ \* answered after having been in flight: one call of
          \* setup_organization, then one query
          (/\ last.scheme = "idle"
           /\ last'.scheme \in UrlSchemes
           /\ racers' # racers)
              => /\ Prefixed(last'.request) /\ UrlBranch(last'.request)
                 /\ ResolverCalls(last'.trace) =
                        <<"filter_grafana_url", "setup_organization", "filter_grafana_url">>
                 /\ syncing' = syncing
                 /\ IF StoredWithUrl(organizations', LookupUrl(last'.request)) = {}
                    THEN /\ last'.out = SyncInProgress
                         /\ last'.out.kind \notin
                                {"AuthenticationFailed"} \cup OrganizationFailures
                    ELSE last'.out.kind # "Throttled"]_vars

C10_Witness ==
    /\ last.scheme = ServiceAccountScheme
    /\ last.request.headers[X_GRAFANA_URL] = Some(UnknownUrl)
    /\ StoredWithUrl(organizations, UnknownUrl) = {}
    /\ last.trace = <<"filter_grafana_url", "setup_organization", "filter_grafana_url">>
    /\ last.out = SyncInProgress

(***************************************************************************)
(* C11: requests racing to resolve the same unknown organization url may   *)
(* each call the sync trigger while another sync is in flight; a duplicate *)
(* trigger is a conflict/no-op and makes no request fail: in every         *)
(* interleaving each racing request ends with the organization stored      *)
(* under its url (when its re-query sees it) or with the retryable         *)
(* "being synced" signal, and at most one organization is stored per url.  *)
(***************************************************************************)
C11_RacersResolveOrRetry ==
    /\ (last.scheme = ServiceAccountScheme /\ Count("setup_organization", last.trace) > 0)
           => /\ last.response \in {Some("ok"), Some("conflict")}
              /\ IF StoredWithUrl(organizations, LookupUrl(last.request)) # {}
                 THEN /\ Count("validate_token", last.trace) = 1
                      /\ last.out.kind \in
                             {"success", "AuthenticationFailed"} \cup OrganizationFailures
                      /\ last.out.detail \in {"", "Invalid token."}
                 ELSE last.out = SyncInProgress
    /\ \A e \in BagToSet(racers) :
           /\ e.pc = "missed" => e.response = None
           /\ e.pc = "triggered" => e.response \in {Some("ok"), Some("conflict")}
    /\ \A o1, o2 \in DOMAIN organizations :
           organizations[o1].grafana_url = organizations[o2].grafana_url => o1 = o2

\* Two requests raced on one unknown url: the second trigger was a conflict,
\* and the request that got the conflict resolved the organization while
\* the other one, whose trigger was accepted, is still in flight.
C11_Witness ==
    /\ last.scheme = ServiceAccountScheme
    /\ last.response = Some("conflict")
    /\ last.trace = <<"filter_grafana_url", "setup_organization", "filter_grafana_url",
                      "validate_token">>
    /\ Cardinality(StoredWithUrl(organizations, UnknownUrl)) = 1
    /\ \E e \in BagToSet(racers) :
           /\ e.pc = "triggered"
           /\ e.url = LookupUrl(last.request)
           /\ e.response = Some("ok")

\* The organization lookups of the resolver's three branches.
UrlLookups == {"filter_grafana_url", "setup_organization"}
OtherLookups == {"filter_stack_id", "filter_slugs"}

CallsOf(trace) == {trace[i] : i \in 1..Len(trace)}

\* The request carries an X-Grafana-URL header.
UrlHeaderPresent(request) == Truthy(request.headers[X_GRAFANA_URL])

\* The service-account scheme reached get_organization.
ReachedResolver ==
    /\ last.scheme = ServiceAccountScheme
    /\ last.request.authorization # ""
    /\ Prefixed(last.request)

\* The priority of the instance-id and slug branches for a request that
\* does not take the url branch.
LicenseBranchPriority ==
    IF settings.LICENSE = CLOUD_LICENSE_NAME
    THEN IF Truthy(last.request.headers[X_GRAFANA_INSTANCE_ID])
         THEN /\ Len(last.trace) >= 1 /\ last.trace[1] = "filter_stack_id"
              /\ CallsOf(last.trace) \cap (UrlLookups \cup {"filter_slugs"}) = {}
         ELSE /\ last.out = AuthenticationFailed("Missing " \o X_GRAFANA_INSTANCE_ID)
              /\ last.trace = <<>>
    ELSE /\ Len(last.trace) >= 1 /\ last.trace[1] = "filter_slugs"
         /\ CallsOf(last.trace) \cap (UrlLookups \cup {"filter_stack_id"}) = {}

(***************************************************************************)
(* C12 as stated: get_organization resolves in fixed priority.  When the   *)
(* X-Grafana-URL header is present the organization is looked up by stored *)
(* url and no other lookup is used; else in cloud mode the                 *)
(* X-Grafana-Instance-ID header is required (its absence is an             *)
(* authentication failure) and the lookup is by stack id; else the lookup  *)
(* is by the configured (org_slug, stack_slug) pair.                       *)
(***************************************************************************)
C12_FixedPriority ==
    ReachedResolver =>
        IF UrlHeaderPresent(last.request)
        THEN /\ Len(last.trace) >= 1 /\ last.trace[1] = "filter_grafana_url"
             /\ CallsOf(last.trace) \cap OtherLookups = {}
        ELSE LicenseBranchPriority

\* The priority the code follows: the url branch is taken by a well-formed
\* url only, every other request goes by the license mode.
FixedPriorityOfWellFormedUrl ==
    ReachedResolver =>
        IF UrlBranch(last.request)
        THEN /\ Len(last.trace) >= 1 /\ last.trace[1] = "filter_grafana_url"
             /\ CallsOf(last.trace) \cap OtherLookups = {}
        ELSE LicenseBranchPriority

(***************************************************************************)
(* C13 as stated: a request whose X-Grafana-URL header is present but      *)
(* malformed (validate_url gives None) is rejected: no organization is     *)
(* looked up by instance id or by the static slugs and the request does    *)
(* not authenticate; a well-formed url is looked up with its trailing      *)
(* slash stripped.                                                         *)
(***************************************************************************)
C13_MalformedUrlRejected ==
    ReachedResolver =>
        /\ (UrlHeaderPresent(last.request) /\ ~UrlBranch(last.request)) =>
               /\ CallsOf(last.trace) \cap OtherLookups = {}
               /\ last.out.kind # "success"
        /\ (UrlBranch(last.request) /\ last.out.kind = "success") =>
               organizations[last.out.auth_token[1].organization].grafana_url
                   = RStripSlash(last.request.headers[X_GRAFANA_URL][1])

\* The part of C13 about well-formed urls.
WellFormedUrlLookedUpStripped ==
    (ReachedResolver /\ UrlBranch(last.request) /\ last.out.kind = "success") =>
        organizations[last.out.auth_token[1].organization].grafana_url
            = RStripSlash(last.request.headers[X_GRAFANA_URL][1])

(***************************************************************************)
(* Vocabulary of the plugin properties.                                    *)
(***************************************************************************)
PluginScheme == last.scheme \in {"BasePluginAuthentication", "PluginAuthentication"}

\* The parsed headers of the request in hand.
InstanceContext == json_dict(last.request.headers[X_INSTANCE_CONTEXT])
GrafanaContext == json_dict(last.request.headers[X_GRAFANA_CONTEXT])
UserContext == json_dict(last.request.headers[X_ONCALL_USER_CONTEXT])

Called(call) == call \in CallsOf(last.trace)

(***************************************************************************)
(* C14 as stated: for every value of the X-Instance-Context,               *)
(* X-Grafana-Context and X-Oncall-User-Context headers (absent, not JSON,  *)
(* JSON that is not an object, an object missing expected fields such as   *)
(* id/name/login/email/role/avatar_url or a permission without "action"),  *)
(* both plugin schemes end in success or in a typed authentication         *)
(* failure; no header parsing error escapes as an uncaught exception.      *)
(***************************************************************************)
C14_NoParsingErrorEscapes ==
    PluginScheme => last.out.kind \in {"success", "AuthenticationFailed"}

\* Where the uncaught exceptions come from: the strict scheme building
\* SyncUser from a non-empty payload.
EscapesOnlyFromSyncPayload ==
    (PluginScheme /\ last.out.kind \notin {"success", "AuthenticationFailed"}) =>
        /\ last.scheme = "PluginAuthentication"
        /\ last.out.kind \in {"KeyError", "TypeError"}
        /\ UserContext.ok /\ UserContext.dict # EmptyDict
        /\ last.trace = <<"check_token", "users.get">>

\* The instance context of the request is a dict with both keys.
InstanceContextComplete ==
    /\ InstanceContext.ok
    /\ dict_contains(InstanceContext.dict, "stack_id")
    /\ dict_contains(InstanceContext.dict, "org_id")

FailedWith(detail) == last.out = AuthenticationFailed(detail)

(***************************************************************************)
(* C15: in both plugin schemes an empty Authorization value, a missing     *)
(* X-Instance-Context header, a context that is not a JSON dict and a      *)
(* context without stack_id or org_id are authentication failures raised   *)
(* before check_token is called; check_token is called only with a context *)
(* that holds both keys, and its InvalidToken, or a credential without     *)
(* organization, is an authentication failure too.                         *)
(***************************************************************************)
C15_ContextCheckedBeforeTokenCheck ==
    PluginScheme =>
        LET auth == last.request.authorization
            header == last.request.headers[X_INSTANCE_CONTEXT]
            credential == check_token(auth, InstanceContext.dict)
        IN  /\ auth = "" => FailedWith("No token provided")
            /\ (auth # "" /\ header = None) => FailedWith("No instance context provided.")
            /\ (auth # "" /\ HeaderTruthy(header) /\ ~InstanceContext.ok) =>
                   FailedWith("Instance context must be JSON dict.")
            /\ (auth # "" /\ InstanceContext.ok /\ ~InstanceContextComplete) =>
                   FailedWith("Invalid instance context.")
            /\ (auth = "" \/ ~InstanceContextComplete) => ~Called("check_token")
            /\ Called("check_token") => (auth # "" /\ InstanceContextComplete)
            /\ (Called("check_token") /\ credential = None) => FailedWith("Invalid token.")
            /\ (Called("check_token") /\ credential # None
                    /\ credential[1].organization = 0) =>
                   FailedWith("No organization associated with token.")

\* A token was presented with a context that lacks org_id: the request
\* failed and check_token was not called.
C15_Witness ==
    /\ PluginScheme
    /\ last.request.authorization = PluginTokenOf(1)
    /\ InstanceContext.ok
    /\ DOMAIN InstanceContext.dict = {JStr("stack_id")}
    /\ FailedWith("Invalid instance context.")
    /\ ~Called("check_token")

\* The credential check_token gives for the request in hand.
PluginCredential ==
    check_token(last.request.authorization, InstanceContext.dict)

\* The request passed the credential checks: _get_user ran for the
\* organization of its credential.
ReachedGetUser ==
    /\ PluginScheme
    /\ last.request.authorization # ""
    /\ InstanceContextComplete
    /\ PluginCredential # None
    /\ PluginCredential[1].organization # 0

TokenOrganization == PluginCredential[1].organization

Strict == last.scheme = "PluginAuthentication"
Tolerant == last.scheme = "BasePluginAuthentication"

\* The id keys the Grafana context carries.
IdKeys == {k \in {"UserId", "UserID"} : dict_contains(GrafanaContext.dict, k)}

ServiceAccountFlag == is_service_account(GrafanaContext.dict)

\* A user of the credential's organization whose id every id key of the
\* context carries.
NamedById(u) ==
    /\ users[u].organization = TokenOrganization
    /\ IdKeys # {}
    /\ \A k \in IdKeys : dict_getitem(GrafanaContext.dict, k) = JInt(users[u].user_id)

AuthenticatedAs(user) == last.out.kind = "success" /\ last.out.user = user

\* Either spelling of the id key resolves the organization's user.
EitherSpellingResolves ==
    \A u \in DOMAIN users :
        (NamedById(u) /\ ~ServiceAccountFlag) => AuthenticatedAs(UserPrincipal(u))

(***************************************************************************)
(* C16 as stated: a Grafana context with only UserId, only UserID, or both *)
(* resolves the organization's user of that id in both plugin schemes; a   *)
(* context with neither key yields no user (None) in the tolerant scheme   *)
(* and an authentication failure in the strict scheme.                     *)
(***************************************************************************)
C16_NeitherKeyAlwaysFails ==
    (ReachedGetUser /\ GrafanaContext.ok) =>
        /\ EitherSpellingResolves
        /\ (IdKeys = {} /\ Tolerant) => AuthenticatedAs(None)
        /\ (IdKeys = {} /\ Strict) => last.out.kind = "AuthenticationFailed"

(***************************************************************************)
(* C16 amended: a Grafana context with only UserId, only UserID, or both   *)
(* resolves the organization's user of that id in both plugin schemes; a   *)
(* context with neither key yields no user (None) in the tolerant scheme;  *)
(* in the strict scheme it is an authentication failure when the context   *)
(* has no Login field either, and with a Login field the user is looked up *)
(* by that login name.                                                     *)
(***************************************************************************)
C16_NeitherKeyFailsWithoutLogin ==
    (ReachedGetUser /\ GrafanaContext.ok) =>
        /\ EitherSpellingResolves
        /\ (IdKeys = {} /\ Tolerant) => AuthenticatedAs(None)
        /\ (IdKeys = {} /\ Strict /\ ~dict_contains(GrafanaContext.dict, "Login")) =>
               /\ last.out.kind = "AuthenticationFailed"
               /\ last.out.detail \in {"Grafana context must specify a User or UserID.",
                                        "Service accounts requests are not allowed."}
        /\ (IdKeys = {} /\ Strict /\ dict_contains(GrafanaContext.dict, "Login")
                /\ ~ServiceAccountFlag) =>
               /\ Len(last.trace) >= 2 /\ last.trace[2] = "users.get"
               /\ \A u \in DOMAIN users :
                      (/\ users[u].organization = TokenOrganization
                       /\ JStr(users[u].username)
                              = dict_getitem(GrafanaContext.dict, "Login"))
                          => AuthenticatedAs(UserPrincipal(u))

\* The strict scheme resolved user 1 from a context that spells the key
\* "UserID" only.
C16_Witness ==
    /\ ReachedGetUser /\ Strict
    /\ GrafanaContext.ok
    /\ IdKeys = {"UserID"}
    /\ NamedById(1)
    /\ AuthenticatedAs(UserPrincipal(1))

(***************************************************************************)
(* C17: a Grafana context with IsServiceAccount set ends user resolution   *)
(* without any user lookup or user sync: the tolerant scheme authenticates *)
(* with no user (None), the strict scheme fails, whatever the UserId,      *)
(* UserID and Login fields and the sync header hold.                       *)
(***************************************************************************)
C17_ServiceAccountShortCircuits ==
    (ReachedGetUser /\ GrafanaContext.ok /\ ServiceAccountFlag) =>
        /\ last.trace = <<"check_token">>
        /\ Tolerant => AuthenticatedAs(None)
        /\ Strict => FailedWith("Service accounts requests are not allowed.")

\* The tolerant scheme authenticated a service-account request with no
\* user although the context names user 1 of the organization.
C17_Witness ==
    /\ ReachedGetUser /\ Tolerant
    /\ GrafanaContext.ok /\ ServiceAccountFlag
    /\ NamedById(1)
    /\ AuthenticatedAs(None)

\* The users of `organization` in table `usrs` that the Grafana context
\* names: by its user id when it has one, else by its Login.
NamedUsers(usrs, organization, context) ==
    LET user_id == dict_get(context, "UserId", dict_get(context, "UserID", JNull))
    IN  {u \in DOMAIN usrs :
            /\ usrs[u].organization = organization
            /\ IF user_id # JNull THEN JInt(usrs[u].user_id) = user_id
               ELSE /\ dict_contains(context, "Login")
                    /\ JStr(usrs[u].username) = dict_getitem(context, "Login")}

\* The context names a user: it has a user id or a Login.
NamesUser(context) ==
    \/ dict_get(context, "UserId", dict_get(context, "UserID", JNull)) # JNull
    \/ dict_contains(context, "Login")

\* The X-Oncall-User-Context header carries a full user-sync payload.
FullSyncPayload(parsed) ==
    /\ parsed.ok
    /\ \A i \in 1..Len(SyncFields) : dict_contains(parsed.dict, SyncFields[i])
    /\ \/ ~dict_contains(parsed.dict, "permissions")
       \/ LET permissions == dict_getitem(parsed.dict, "permissions")
          IN  /\ permissions[1] = "array"
              /\ \A i \in 1..Len(permissions[2]) :
                     /\ permissions[2][i][1] = "object"
                     /\ \E j \in 1..Len(permissions[2][i][2]) :
                            permissions[2][i][2][j][1] = "action"

\* The strict scheme is answering a request whose context names a user.
StrictNamedRequest ==
    /\ last.scheme = "idle"
    /\ last'.scheme = "PluginAuthentication"
    /\ ReachedGetUser'
    /\ GrafanaContext'.ok
    /\ ~ServiceAccountFlag'
    /\ NamesUser(GrafanaContext'.dict)

\* The requests this step puts in flight.
NewlyInFlight == {e \in BagToSet(racers') : CopiesIn(e, racers') > CopiesIn(e, racers)}

\* The request was answered by the existing user, without a sync.
ExistingUserAnswers ==
    LET named == NamedUsers(users, TokenOrganization', GrafanaContext'.dict)
    IN  /\ Count("get_or_create_user", last'.trace) = 0
        /\ users' = users
        /\ \E u \in named : AuthenticatedAs(UserPrincipal(u))'

\* The request was answered by the user get_or_create_user returned for
\* the payload, after exactly one call.
SyncedUserAnswers ==
    /\ Count("get_or_create_user", last'.trace) = 1
    /\ \E u \in DOMAIN users' :
           /\ users'[u].organization = TokenOrganization'
           /\ JInt(users'[u].user_id) = dict_getitem(UserContext'.dict, "id")
           /\ AuthenticatedAs(UserPrincipal(u))'

\* A request goes on to get_or_create_user only from a lookup that found
\* nobody and with a full payload, and the request that called it is
\* answered by the user it returned.
SyncsAfterMissOnly ==
    /\ \A e \in NewlyInFlight :
           /\ users' = users
           /\ e.scheme = "PluginAuthentication"
           /\ e.trace = <<"check_token", "users.get">>
           /\ NamedUsers(users, e.organization,
                         json_dict(e.request.headers[X_GRAFANA_CONTEXT]).dict) = {}
           /\ FullSyncPayload(json_dict(e.request.headers[X_ONCALL_USER_CONTEXT]))
    /\ (StrictNamedRequest /\ racers' # racers) => SyncedUserAnswers

(***************************************************************************)
(* C18 as stated: in the strict scheme, when the context names a user that *)
(* does not exist in the organization, a sync payload in                   *)
(* X-Oncall-User-Context makes get_or_create_user run exactly once and its *)
(* user is the principal; without a sync payload (header absent or an      *)
(* empty object) authentication fails with "Non-existent or anonymous      *)
(* user."; get_or_create_user is never called when the lookup of the       *)
(* existing user succeeds.                                                 *)
(***************************************************************************)
C18_NoPayloadIsNonExistentUser ==
    [][/\ SyncsAfterMissOnly
       /\ (StrictNamedRequest /\ racers' = racers) =>
              IF NamedUsers(users, TokenOrganization', GrafanaContext'.dict) # {}
              THEN ExistingUserAnswers
              ELSE /\ ~FullSyncPayload(UserContext')
                   /\ users' = users
                   /\ Count("get_or_create_user", last'.trace) = 0
                   /\ (\/ last'.request.headers[X_ONCALL_USER_CONTEXT] = None
                       \/ (UserContext'.ok /\ UserContext'.dict = EmptyDict)) =>
                          FailedWith("Non-existent or anonymous user.")']_vars

(***************************************************************************)
(* C18 amended: in the strict scheme, when the lookup of the user the      *)
(* context names finds nobody in the organization, a full sync payload in  *)
(* X-Oncall-User-Context makes the request call get_or_create_user         *)
(* exactly once and its user is the principal (also when another request   *)
(* created that user after the lookup); an empty object in the header      *)
(* fails with "Non-existent or anonymous user.", and an absent header      *)
(* fails with "User context must be JSON dict."; get_or_create_user is     *)
(* never called when the lookup of the existing user succeeds.             *)
(***************************************************************************)
C18_AbsentHeaderIsMalformedContext ==
    [][/\ SyncsAfterMissOnly
       /\ (StrictNamedRequest /\ racers' = racers) =>
              IF NamedUsers(users, TokenOrganization', GrafanaContext'.dict) # {}
              THEN ExistingUserAnswers
              ELSE /\ ~FullSyncPayload(UserContext')
                   /\ users' = users
                   /\ Count("get_or_create_user", last'.trace) = 0
                   /\ last'.request.headers[X_ONCALL_USER_CONTEXT] = None =>
                          FailedWith("User context must be JSON dict.")'
                   /\ (UserContext'.ok /\ UserContext'.dict = EmptyDict) =>
                          FailedWith("Non-existent or anonymous user.")']_vars

\* The strict scheme authenticated a request as the user that its one call
\* of get_or_create_user created from the payload, while another request
\* whose lookup missed the same user stands before its own call.
C18_Witness ==
    /\ ReachedGetUser /\ Strict
    /\ GrafanaContext.ok
    /\ dict_get(GrafanaContext.dict, "UserId", JNull) = JInt(UnknownUserId)
    /\ FullSyncPayload(UserContext)
    /\ last.trace = <<"check_token", "users.get", "get_or_create_user">>
    /\ Len(users) = 2 * MaxOrgs + 1
    /\ AuthenticatedAs(UserPrincipal(Len(users)))
    /\ users[Len(users)].user_id = UnknownUserId
    /\ \E e \in BagToSet(racers) :
           /\ e.organization = TokenOrganization
           /\ e.user_sync_data.id = JInt(UnknownUserId)
           /\ e.trace = <<"check_token", "users.get">>

\* The organization the resolver's branch of the request finds.
BranchLookup(request) ==
    IF UrlBranch(request) THEN filter_grafana_url(organizations, LookupUrl(request))
    ELSE IF settings.LICENSE = CLOUD_LICENSE_NAME
    THEN IF Truthy(request.headers[X_GRAFANA_INSTANCE_ID])
         THEN filter_stack_id(organizations, request.headers[X_GRAFANA_INSTANCE_ID][1])
         ELSE None
    ELSE filter_slugs(organizations, settings.ORG_SLUG, settings.STACK_SLUG)

(***************************************************************************)
(* C19: the service-account scheme reaches validate_token only after the   *)
(* organization is resolved and found neither moved nor deleted: it is     *)
(* never called when the token lacks the prefix, when no organization      *)
(* resolves, when the resolver signals sync-in-progress, or when the       *)
(* organization is moved or deleted; an InvalidToken from it becomes the   *)
(* "Invalid token." authentication failure.                                *)
(***************************************************************************)
C19_ValidateTokenAfterResolution ==
    last.scheme = ServiceAccountScheme =>
        /\ Called("validate_token") =>
               /\ Prefixed(last.request)
               /\ Count("validate_token", last.trace) = 1
               /\ Len(last.trace) >= 2
               /\ last.trace[Len(last.trace)] = "validate_token"
               /\ BranchLookup(last.request) # None
               /\ ~MovedOrDeleted(BranchLookup(last.request)[1])
               /\ \/ last.out.kind = "success"
                  \/ /\ FailedWith("Invalid token.")
                     /\ validate_token(BranchLookup(last.request)[1],
                                       last.request.authorization) = None
        /\ (\/ ~Prefixed(last.request)
            \/ last.out = OrganizationNotFound
            \/ last.out = SyncInProgress
            \/ last.out.kind \in OrganizationFailures) => ~Called("validate_token")
        /\ (ReachedResolver /\ BranchLookup(last.request) # None
               /\ MovedOrDeleted(BranchLookup(last.request)[1])) =>
               /\ last.out.kind \in OrganizationFailures
               /\ ~Called("validate_token")

\* The resolved organization is active and its Grafana rejected the
\* token: validate_token was called last and the request failed with
\* "Invalid token.".
C19_Witness ==
    /\ last.scheme = ServiceAccountScheme
    /\ last.request.authorization = GRAFANA_SA_PREFIX \o "123"
    /\ last.trace = <<"filter_grafana_url", "validate_token">>
    /\ FailedWith("Invalid token.")

\* The principal _get_user's result stands for.
PrincipalOf(user) == IF user = None THEN None ELSE UserPrincipal(user[1])

(***************************************************************************)
(* C20: the strict _get_user refines the tolerant one.  For the same       *)
(* request and the same tables, whenever the tolerant variant returns a    *)
(* user the strict variant returns that user, and whenever the strict      *)
(* variant returns a user without the Login fallback and without the sync  *)
(* payload the tolerant variant returns that user (also for contexts whose *)
(* UserId is null while UserID holds the id); a request the strict variant *)
(* takes to the sync payload is one the tolerant variant gives no user.    *)
(***************************************************************************)
C20_StrictRefinesTolerant ==
    [][/\ (last.scheme = "idle" /\ PluginScheme' /\ ReachedGetUser' /\ racers' = racers) =>
              LET request == last'.request
                  organization == TokenOrganization'
                  tolerant == BasePlugin_get_user(request, organization)
                  strict == Plugin_get_user(request, organization)
                  by_id == /\ strict.out = None
                           /\ strict.sync = None
                           /\ Plugin_user_id(GrafanaContext'.dict) # JNull
              IN  /\ tolerant.user # None =>
                         /\ strict.out = None
                         /\ strict.sync = None
                         /\ strict.user = tolerant.user
                  /\ by_id => tolerant.user = strict.user
                  /\ Tolerant' => /\ last'.out.kind = "success"
                                  /\ last'.out.user = PrincipalOf(tolerant.user)
                  /\ (Strict' /\ strict.out = None) =>
                         /\ strict.sync = None
                         /\ last'.out.kind = "success"
                         /\ last'.out.user = PrincipalOf(strict.user)
                  /\ (Strict' /\ strict.out # None) => last'.out = strict.out[1]
       /\ \A e \in NewlyInFlight :
              /\ Plugin_get_user(e.request, e.organization).sync # None
              /\ BasePlugin_get_user(e.request, e.organization).user = None]_vars

\* The tolerant scheme authenticated a request as user 1, and the strict
\* _get_user gives user 1 for the same request.
C20_Witness ==
    /\ ReachedGetUser /\ Tolerant
    /\ AuthenticatedAs(UserPrincipal(1))
    /\ Plugin_get_user(last.request, TokenOrganization).user = Some(1)
    /\ BasePlugin_get_user(last.request, TokenOrganization).user = Some(1)

StaticKeyScheme == last.scheme = "GrafanaIncidentStaticKeyAuth"

ConfiguredKey == settings.GRAFANA_INCIDENT_STATIC_API_KEY

(***************************************************************************)
(* C21: GrafanaIncidentStaticKeyAuth.authenticate returns                  *)
(* (GrafanaIncidentUser, None) if and only if the Authorization value is   *)
(* non-empty and equals the configured static key; it never authenticates  *)
(* when the configured key is None or empty, and an empty Authorization    *)
(* value never authenticates: it fails with "Wrong token", or with "No     *)
(* token provided" only when the configured key is the empty string.       *)
(***************************************************************************)
C21_StaticKeyMatchesExactly ==
    StaticKeyScheme =>
        LET auth == last.request.authorization
        IN  /\ last.out.kind = "success" <=> (auth # "" /\ ConfiguredKey = Some(auth))
            /\ last.out.kind = "success" => last.out = Success(GrafanaIncidentUser, None)
            /\ last.out.kind # "success" => last.out.kind = "AuthenticationFailed"
            /\ ConfiguredKey \in {None, Some("")} => last.out.kind # "success"
            /\ auth = "" => IF ConfiguredKey = Some("")
                            THEN FailedWith("No token provided")
                            ELSE FailedWith("Wrong token")
            /\ FailedWith("No token provided") => (auth = "" /\ ConfiguredKey = Some(""))

\* The key is configured and the request presented exactly it.
C21_Witness ==
    /\ StaticKeyScheme
    /\ ConfiguredKey = Some("key1")
    /\ last.request.authorization = "key1"
    /\ last.out = Success(GrafanaIncidentUser, None)
====
